---- MODULE Spec2Model ----
(***************************************************************************)
(* Scheduling & matching engine of src/run.py: region resolution with      *)
(* retry and fallback, technician matching, slot proposal, and the         *)
(* appointment lifecycle over the in-memory store.                         *)
(*                                                                         *)
(* Text values on which the code does character-level work (strip, lower,  *)
(* substring, startswith, regular expressions) are sequences of one-char   *)
(* strings.  Tags that are only compared (appliance, skill, ids, status)   *)
(* are TLA+ strings.  An ISO-8601 timestamp string is a record             *)
(* [d, m, tz, fmt]: day of month, minute of the day, the offset suffix and *)
(* the textual form; two timestamp strings are equal as text iff the       *)
(* records are equal.                                                      *)
(***************************************************************************)
EXTENDS Integers, Sequences, FiniteSets, TLC

VARIABLES
    CUSTOMERS,      \* customer_id -> customer record        (run.py:128)
    JOBS,           \* job_id -> job record                  (run.py:129)
    APPOINTMENTS,   \* ticket_id -> appointment record       (run.py:130)
    request,        \* the request the last handler served
    response,       \* the response the last handler returned
    lr,             \* a lookup_region call: the frame of a running one, or the
                    \* call the last handler made
    fn,             \* one call of a pure function: its inputs and its result
    threads         \* handler calls in progress in the server's worker threads

vars == <<CUSTOMERS, JOBS, APPOINTMENTS, request, response, lr, fn, threads>>

\* ------------------------------------------------------------------ bounds

MaxCustomers == 1
MaxAppointments == 1
MaxClock == 1
MaxRetries == 2
MaxPrefs == 2

\* ----------------------------------------------------------------- strings

Range(s) == {s[i] : i \in DOMAIN s}

UpperCase == <<"A","B","C","D","E","F","G","H","I","J","K","L","M",
               "N","O","P","Q","R","S","T","U","V","W","X","Y","Z">>
LowerCase == <<"a","b","c","d","e","f","g","h","i","j","k","l","m",
               "n","o","p","q","r","s","t","u","v","w","x","y","z">>
Digits == {"0","1","2","3","4","5","6","7","8","9"}

UpperSet == Range(UpperCase)

\* str.lower(), one character
LowerChar(c) ==
    IF c \in UpperSet
    THEN LowerCase[CHOOSE i \in 1..26 : UpperCase[i] = c]
    ELSE c

\* str.lower()
RECURSIVE Lower(_)
Lower(s) == IF s = <<>> THEN <<>> ELSE <<LowerChar(Head(s))>> \o Lower(Tail(s))

IsSpace(c) == c \in {" ", "\t", "\n"}

\* str.strip(): the longest slice without leading and trailing whitespace
Strip(s) ==
    IF \A i \in 1..Len(s) : IsSpace(s[i]) THEN <<>>
    ELSE LET lo == CHOOSE i \in 1..Len(s) :
                       ~IsSpace(s[i]) /\ \A j \in 1..(i-1) : IsSpace(s[j])
             hi == CHOOSE i \in 1..Len(s) :
                       ~IsSpace(s[i]) /\ \A j \in (i+1)..Len(s) : IsSpace(s[j])
         IN  SubSeq(s, lo, hi)

\* a in b, for two str
Contains(b, a) ==
    \E i \in 0..(Len(b) - Len(a)) : SubSeq(b, i + 1, i + Len(a)) = a

\* s.startswith(p)
StartsWith(s, p) == Len(p) <= Len(s) /\ SubSeq(s, 1, Len(p)) = p

\* s[:n]
Prefix(s, n) == SubSeq(s, 1, IF n < Len(s) THEN n ELSE Len(s))

\* re.sub(r"\D", "", s)
RECURSIVE DigitsOnly(_)
DigitsOnly(s) ==
    IF s = <<>> THEN <<>>
    ELSE (IF Head(s) \in Digits THEN <<Head(s)>> ELSE <<>>) \o DigitsOnly(Tail(s))

\* \w of the regular expressions, over the characters the model uses
IsWord(c) ==
    \/ c \in Digits
    \/ c = "_"
    \/ \E i \in 1..26 : UpperCase[i] = c \/ LowerCase[i] = c

\* ------------------------------------------------------------- validation

\* PHONE_RE ^[6-9]\d{9}$ on the digits of the text
validate_phone(phone) ==
    LET d == DigitsOnly(phone)
    IN  /\ Len(d) = 10
        /\ d[1] \in {"6","7","8","9"}

\* EMAIL_RE ^[\w\.-]+@[\w\.-]+\.\w{2,}$ on the stripped text
validate_email(email) ==
    LET e == Strip(email)
        Loc(c) == IsWord(c) \/ c = "." \/ c = "-"
    IN  \E at \in 2..Len(e) : \E dot \in (at + 2)..(Len(e) - 2) :
            /\ e[at] = "@"
            /\ e[dot] = "."
            /\ \A i \in 1..(at - 1) : Loc(e[i])
            /\ \A i \in (at + 1)..(dot - 1) : Loc(e[i])
            /\ \A i \in (dot + 1)..Len(e) : IsWord(e[i])

\* PINCODE_RE ^\d{6}$ on the stripped text
validate_pincode(pincode) ==
    LET p == Strip(pincode)
    IN  Len(p) = 6 /\ \A i \in 1..6 : p[i] \in Digits

\* ------------------------------------------------------------ text values

BengaluruUrban == <<"B","e","n","g","a","l","u","r","u"," ","U","r","b","a","n">>
MumbaiSuburban == <<"M","u","m","b","a","i"," ","S","u","b","u","r","b","a","n">>
Delhi == <<"D","e","l","h","i">>
Central == <<"C","e","n","t","r","a","l">>
West == <<"W","e","s","t">>
Unknown == <<"U","n","k","n","o","w","n">>
Karnataka == <<"K","a","r","n","a","t","a","k","a">>
NewDelhi == <<"N","e","w"," ","D","e","l","h","i">>
DelhiUpper == <<"D","E","L","H","I">>
Del == <<"D","e","l">>
Bangalore == <<"B","a","n","g","a","l","o","r","e">>
Blank == <<" ">>
Pin560001 == <<"5","6","0","0","0","1">>
Pin400001 == <<"4","0","0","0","0","1">>
Pin110001 == <<"1","1","0","0","0","1">>
Pin999999 == <<"9","9","9","9","9","9">>
Pin56 == <<"5","6">>
Pin56000a == <<"5","6","0","0","0","a">>
PinPadded == <<" ","5","6","0","0","0","1"," ">>

\* -------------------------------------------------------------- timestamps

\* "2025-09-<d>T<h>:<mi>:00+05:30", the form of every Directory timestamp
TS(d, h, mi) == [d |-> d, m |-> h * 60 + mi, tz |-> "+05:30", fmt |-> "iso"]

\* The slot dict {"start": .., "end": ..}
Slot(s, e) == [start |-> s, end |-> e]

NoOffset == 100000

\* the utcoffset, in minutes, that an offset suffix denotes
TzMinutes(tz) ==
    CASE tz = "+05:30" -> 330
      [] tz = "+00:00" -> 0
      [] OTHER -> NoOffset

\* datetime.fromisoformat: fmt "iso" is the form isoformat() writes, "short"
\* a form it reads but does not write (seconds left out), "bad" a text it
\* rejects with ValueError, "missing" an absent key (KeyError in the caller).
parse_iso(s) ==
    IF s.fmt \in {"iso", "short"}
    THEN [ok |-> TRUE, local |-> s.d * 1440 + s.m, off |-> TzMinutes(s.tz)]
    ELSE [ok |-> FALSE, local |-> 0, off |-> NoOffset]

\* datetime.isoformat()
isoformat(dt) ==
    [d |-> dt.local \div 1440, m |-> dt.local % 1440,
     tz |-> IF dt.off = 330 THEN "+05:30" ELSE IF dt.off = 0 THEN "+00:00" ELSE "",
     fmt |-> "iso"]

\* a < b on datetime raises TypeError between a naive and an aware value
Comparable(a, b) == (a.off = NoOffset) <=> (b.off = NoOffset)

\* a < b on two comparable datetime values
Before(a, b) ==
    IF a.off = NoOffset THEN a.local < b.local
    ELSE a.local - a.off < b.local - b.off

\* max(a, b), min(a, b): the first argument unless the second is strictly beyond
PyMax(a, b) == IF Before(a, b) THEN b ELSE a
PyMin(a, b) == IF Before(b, a) THEN b ELSE a

\* overlap_slot: None is [some |-> FALSE]
overlap_slot(pref_start, pref_end, tech_start, tech_end) ==
    LET latest_start == PyMax(pref_start, tech_start)
        earliest_end == PyMin(pref_end, tech_end)
    IN  IF Before(latest_start, earliest_end)
        THEN [some |-> TRUE, start |-> latest_start, end |-> earliest_end]
        ELSE [some |-> FALSE, start |-> latest_start, end |-> earliest_end]

\* whether overlap_slot raises TypeError on these arguments
overlap_raises(pref_start, pref_end, tech_start, tech_end) ==
    \/ ~Comparable(pref_start, tech_start)
    \/ ~Comparable(pref_end, tech_end)
    \/ ~Comparable(PyMax(pref_start, tech_start), PyMin(pref_end, tech_end))

\* -------------------------------------------------------------- static data

TECHNICIANS_DATA == <<
    [id |-> "tech_01", name |-> "Asha K",
     skills |-> <<"wm_vibration", "ac_leak">>,
     appliances_supported |-> <<"WashingMachine", "AC">>,
     regions |-> <<BengaluruUrban, Central>>,
     availability_slots |-> << Slot(TS(20,10,0), TS(20,12,0)),
                               Slot(TS(20,15,0), TS(20,16,0)) >>],
    [id |-> "tech_02", name |-> "Ravi S",
     skills |-> <<"fridge_cooling", "tv_display">>,
     appliances_supported |-> <<"Refrigerator", "TV">>,
     regions |-> <<MumbaiSuburban, Central>>,
     availability_slots |-> << Slot(TS(21,9,0), TS(21,11,0)),
                               Slot(TS(21,14,0), TS(21,16,0)) >>],
    [id |-> "tech_03", name |-> "Priya M",
     skills |-> <<"ac_airflow", "waterpurifier_filter">>,
     appliances_supported |-> <<"AC", "WaterPurifier">>,
     regions |-> <<BengaluruUrban, West>>,
     availability_slots |-> << Slot(TS(22,10,30), TS(22,12,30)),
                               Slot(TS(22,15,30), TS(22,17,0)) >>],
    [id |-> "tech_04", name |-> "Anil P",
     skills |-> <<"wm_drum", "ac_cooling">>,
     appliances_supported |-> <<"WashingMachine", "AC">>,
     regions |-> <<West, MumbaiSuburban>>,
     availability_slots |-> << Slot(TS(23,9,0), TS(23,11,0)),
                               Slot(TS(23,13,0), TS(23,15,0)) >>],
    [id |-> "tech_05", name |-> "Neha R",
     skills |-> <<"fridge_temp", "tv_sound">>,
     appliances_supported |-> <<"Refrigerator", "TV">>,
     regions |-> <<Central, BengaluruUrban>>,
     availability_slots |-> << Slot(TS(24,10,0), TS(24,12,0)),
                               Slot(TS(24,15,0), TS(24,16,30)) >>],
    [id |-> "tech_06", name |-> "Kiran V",
     skills |-> <<"waterpurifier_flow", "ac_noise", "wm_motor">>,
     appliances_supported |-> <<"WaterPurifier", "AC", "WashingMachine">>,
     regions |-> <<West, MumbaiSuburban>>,
     availability_slots |-> << Slot(TS(25,9,30), TS(25,11,30)),
                               Slot(TS(25,14,30), TS(25,16,30)) >> ] >>

REGIONS_CACHE == <<
    [pincode_prefix |-> <<"5","6","0","0","x","x">>, region_label |-> BengaluruUrban],
    [pincode_prefix |-> <<"4","0","0","0","x","x">>, region_label |-> MumbaiSuburban],
    [pincode_prefix |-> <<"1","1","0","0","x","x">>, region_label |-> Delhi] >>

\* x in s, for a list s
InList(x, s) == \E i \in DOMAIN s : s[i] = x

\* None, where the code passes None or leaves a key out
None == "<None>"

\* truth value of an Optional[str]
Truthy(x) == x # None /\ x # ""

\* ---------------------------------------------------------- lookup_region

DefaultRetries == 2

\* What one requests.get(url, timeout) can do: raise a RequestException
\* (transport failure, timeout), or return a response with a status code and,
\* in its JSON, a list of place dicts.  A place dict holds the keys in `keys`.
SvcRaise(kind) == [kind |-> kind, status |-> 0, places |-> <<>>]
SvcStatus(code) == [kind |-> "http", status |-> code, places |-> <<>>]
SvcPlaces(places) == [kind |-> "http", status |-> 200, places |-> places]
Place(keys, state, place_name) ==
    [keys |-> keys, state |-> state, place_name |-> place_name]

\* d.get(key, ""), on a place dict
PlaceGet(place, key) ==
    IF key \in place.keys
    THEN (IF key = "state" THEN place.state ELSE place.place_name)
    ELSE <<>>

\* indices of the REGIONS_CACHE entries whose lowered label is in either text
LabelHits(state, place_name) ==
    LET state_lower == Lower(state)
        place_name_lower == Lower(place_name)
    IN  {i \in DOMAIN REGIONS_CACHE :
            LET lab == Lower(REGIONS_CACHE[i].region_label)
            IN  Contains(state_lower, lab) \/ Contains(place_name_lower, lab)}

SetMin(S) == CHOOSE x \in S : \A y \in S : x <= y

\* RawCandidate without its last two alternatives
RawCandidateStateOnly(state, place_name) == state

\* state or place_name or "Unknown"
RawCandidate(state, place_name) ==
    IF state # <<>> THEN state
    ELSE IF place_name # <<>> THEN place_name
    ELSE Unknown

\* Body of the while loop for one response: either the function returns `val`
\* (ret), or the attempt is consumed (attempts += 1).
TryAttempt(resp) ==
    IF resp.kind # "http" THEN [ret |-> FALSE, val |-> <<>>]
    ELSE IF resp.status # 200 THEN [ret |-> FALSE, val |-> <<>>]
    ELSE IF resp.places = <<>> THEN [ret |-> FALSE, val |-> <<>>]
    ELSE LET state == Strip(PlaceGet(resp.places[1], "state"))
             place_name == Strip(PlaceGet(resp.places[1], "place name"))
             hits == LabelHits(state, place_name)
         IN  IF hits # {}
             THEN [ret |-> TRUE, val |-> REGIONS_CACHE[SetMin(hits)].region_label]
             ELSE [ret |-> TRUE, val |-> RawCandidate(state, place_name)]

\* FallbackRegion with the prefix test the other way round
FallbackRegionReversed(pincode) ==
    LET hits == {i \in DOMAIN REGIONS_CACHE :
                    StartsWith(Prefix(REGIONS_CACHE[i].pincode_prefix, 4), pincode)}
    IN  IF hits # {} THEN REGIONS_CACHE[SetMin(hits)].region_label ELSE Unknown

\* The loop after the while: the cached mapping by prefix, else "Unknown"
FallbackRegion(pincode) ==
    LET hits == {i \in DOMAIN REGIONS_CACHE :
                    StartsWith(pincode, Prefix(REGIONS_CACHE[i].pincode_prefix, 4))}
    IN  IF hits # {} THEN REGIONS_CACHE[SetMin(hits)].region_label ELSE Unknown

\* LoopGuard with the initial attempt counted against the retry budget
LoopGuardStrict(attempts, retries) == attempts < retries

\* while attempts <= retries
LoopGuard(attempts, retries) == attempts <= retries

\* lookup_region against a service that answers attempt k with svc[k]
RECURSIVE LookupFrom(_, _, _, _)
LookupFrom(pincode, retries, attempts, svc) ==
    IF LoopGuard(attempts, retries)
    THEN LET o == TryAttempt(svc[attempts + 1])
         IN  IF o.ret THEN o.val
             ELSE LookupFrom(pincode, retries, attempts + 1, svc)
    ELSE FallbackRegion(pincode)

lookup_region(pincode, retries, svc) == LookupFrom(pincode, retries, 0, svc)

\* ------------------------------------------------------- scheduling logic

\* find_technicians_for without the region test
find_technicians_any_region(appliance, required_skill, region_label) ==
    SelectSeq(TECHNICIANS_DATA, LAMBDA tech :
        /\ InList(appliance, tech.appliances_supported)
        /\ (Truthy(required_skill) => InList(required_skill, tech.skills)))

find_technicians_for(appliance, required_skill, region_label) ==
    SelectSeq(TECHNICIANS_DATA, LAMBDA tech :
        /\ InList(appliance, tech.appliances_supported)
        /\ InList(region_label, tech.regions)
        /\ (Truthy(required_skill) => InList(required_skill, tech.skills)))

\* The proposal dict
Proposal(start, end, tech) == [start |-> start, end |-> end, technician_id |-> tech.id]

\* try: parse_iso(x["start"]); parse_iso(x["end"])  except Exception: continue
SlotParses(x) == parse_iso(x.start).ok /\ parse_iso(x.end).ok

\* Enough that lets one proposal more through
EnoughBeyond(proposals, max_proposals) == Len(proposals) > max_proposals

\* len(proposals) >= max_proposals
Enough(proposals, max_proposals) == Len(proposals) >= max_proposals

\* The second loop of propose_slots: raw availability appended to `proposals`
RECURSIVE FillFromAvailability(_, _, _, _)
FillFromAvailability(tech, k, proposals, max_proposals) ==
    IF k > Len(tech.availability_slots) THEN proposals
    ELSE LET ts == tech.availability_slots[k]
             more == Append(proposals, Proposal(ts.start, ts.end, tech))
         IN  IF Enough(more, max_proposals) THEN more
             ELSE FillFromAvailability(tech, k + 1, more, max_proposals)

\* The first loop of propose_slots, at preference i and availability slot j;
\* the result is [raised, proposals]: raised is the TypeError of overlap_slot,
\* which no except clause of propose_slots or of its callers catches.
RECURSIVE ProposeFrom(_, _, _, _, _, _)
ProposeFrom(tech, prefs, i, j, proposals, max_proposals) ==
    IF i > Len(prefs)
    THEN [raised |-> FALSE,
          proposals |-> FillFromAvailability(tech, 1, proposals, max_proposals)]
    ELSE IF ~SlotParses(prefs[i])
    THEN ProposeFrom(tech, prefs, i + 1, 1, proposals, max_proposals)
    ELSE IF j > Len(tech.availability_slots)
    THEN ProposeFrom(tech, prefs, i + 1, 1, proposals, max_proposals)
    ELSE IF ~SlotParses(tech.availability_slots[j])
    THEN ProposeFrom(tech, prefs, i, j + 1, proposals, max_proposals)
    ELSE LET pref_start == parse_iso(prefs[i].start)
             pref_end == parse_iso(prefs[i].end)
             tech_start == parse_iso(tech.availability_slots[j].start)
             tech_end == parse_iso(tech.availability_slots[j].end)
         IN  IF overlap_raises(pref_start, pref_end, tech_start, tech_end)
             THEN [raised |-> TRUE, proposals |-> <<>>]
             ELSE LET ov == overlap_slot(pref_start, pref_end, tech_start, tech_end)
                      more == Append(proposals,
                                     Proposal(isoformat(ov.start), isoformat(ov.end), tech))
                  IN  IF ~ov.some
                      THEN ProposeFrom(tech, prefs, i, j + 1, proposals, max_proposals)
                      ELSE IF Enough(more, max_proposals)
                      THEN [raised |-> FALSE, proposals |-> more]
                      ELSE ProposeFrom(tech, prefs, i, j + 1, more, max_proposals)

DefaultMaxProposals == 2

propose_slots(tech, customer_pref_slots, max_proposals) ==
    ProposeFrom(tech, customer_pref_slots, 1, 1, <<>>, max_proposals)

\* for p in more: if p not in proposals: proposals.append(p)
RECURSIVE AppendNew(_, _)
AppendNew(proposals, more) ==
    IF more = <<>> THEN proposals
    ELSE AppendNew(IF InList(Head(more), proposals) THEN proposals
                   ELSE Append(proposals, Head(more)),
                   Tail(more))

\* AggregateFrom that asks every remaining technician
RECURSIVE AggregateFromAll(_, _, _, _)
AggregateFromAll(techs, prefs, idx, proposals) ==
    IF idx + 1 < Len(techs)
    THEN LET more == propose_slots(techs[idx + 2], prefs, DefaultMaxProposals)
         IN  IF more.raised THEN [raised |-> TRUE, proposals |-> <<>>]
             ELSE AggregateFromAll(techs, prefs, idx + 1,
                                   AppendNew(proposals, more.proposals))
    ELSE [raised |-> FALSE, proposals |-> proposals]

\* while len(proposals) < 2 and idx+1 < len(techs)   (idx counts from 0)
RECURSIVE AggregateFrom(_, _, _, _)
AggregateFrom(techs, prefs, idx, proposals) ==
    IF Len(proposals) < 2 /\ idx + 1 < Len(techs)
    THEN LET more == propose_slots(techs[idx + 2], prefs, DefaultMaxProposals)
         IN  IF more.raised THEN [raised |-> TRUE, proposals |-> <<>>]
             ELSE AggregateFrom(techs, prefs, idx + 1,
                                AppendNew(proposals, more.proposals))
    ELSE [raised |-> FALSE, proposals |-> proposals]

\* The proposal block of the two intake handlers
ProposeForIntake(techs, prefs) ==
    IF techs = <<>> THEN [raised |-> FALSE, proposals |-> <<>>]
    ELSE LET first == propose_slots(techs[1], prefs, DefaultMaxProposals)
         IN  IF first.raised THEN first
             ELSE AggregateFrom(techs, prefs, 0, first.proposals)

\* ------------------------------------------------------------------ store

\* Identifiers: f"CUST-{uuid4().hex[:8]}" and its like are pairs <<kind, n>>;
\* uuid4 is taken to return a value not returned before, any such value.
NoId == <<"NONE", 0>>
CustomerIds == {<<"CUST", n>> : n \in 1..MaxCustomers}
JobIds == {<<"JOB", n>> : n \in 1..MaxCustomers}
TicketIds == {<<"TK", n>> : n \in 1..MaxAppointments}

\* datetime.now(timezone.utc).isoformat(): the readings of the wall clock;
\* 0 stands for a timestamp key that is not in the dict
Clock == 1..MaxClock

\* An empty dict
EmptyMap == [k \in {} |-> 0]

\* d[key] = value on a dict
MapSet(d, key, value) == [k \in DOMAIN d \cup {key} |-> IF k = key THEN value ELSE d[k]]

\* A timestamp key that is absent from a slot dict (.get gives None), and a
\* slot that is None or missing in the payload
AbsentTS == [d |-> 0, m |-> 0, tz |-> "", fmt |-> "missing"]
NoSlot == [start |-> [d |-> 0, m |-> 0, tz |-> "", fmt |-> "none"],
           end |-> [d |-> 0, m |-> 0, tz |-> "", fmt |-> "none"]]

\* the ids a uuid4 call may return now; NoId when the model's pool is used up
Fresh(pool, used) == IF pool \ used = {} THEN {NoId} ELSE pool \ used

\* jsonify({"error": msg}), code
ErrorResponse(op, code, msg) == [op |-> op, code |-> code, error |-> msg]

\* ------------------------------------------------------------ intake: service

\* The lookup_region call a handler made: none, or the pincode it passed and
\* the label it got back
IdleLookup == [pc |-> "idle"]
LookupMade(pincode, label) == [pc |-> "returned", pincode |-> pincode, result |-> label]

\* the errors list of register_service_issue
ServiceErrors(full_name, phone, email, pincode, appliance_type) ==
    (IF full_name = <<>> THEN <<"full_name required">> ELSE <<>>)
    \o (IF ~validate_phone(phone)
        THEN <<"invalid phone (expected 10-digit Indian mobile)">> ELSE <<>>)
    \o (IF email # <<>> /\ ~validate_email(email) THEN <<"invalid email">> ELSE <<>>)
    \o (IF ~validate_pincode(pincode) THEN <<"invalid pincode (6 digits)">> ELSE <<>>)
    \o (IF appliance_type = "" THEN <<"appliance_type required">> ELSE <<>>)

\* register_service_issue: the store and the response it leaves, and the
\* lookup_region call it made
register_service_issue(payload, svc, customer_id, job_id, customers, jobs) ==
    LET full_name == Strip(payload.full_name)
        phone == Strip(payload.phone)
        email == Strip(payload.email)
        address_text == Strip(payload.address_text)
        pincode == Strip(payload.pincode)
        preferred_time_slots == payload.preferred_time_slots
        appliance_type == payload.appliance_type
        fault_symptoms == payload.fault_symptoms
        errors == ServiceErrors(full_name, phone, email, pincode, appliance_type)
        region_label == lookup_region(pincode, DefaultRetries, svc)
        required_skill == IF fault_symptoms # <<>> THEN fault_symptoms[1] ELSE None
        techs == find_technicians_for(appliance_type, required_skill, region_label)
        prop == ProposeForIntake(techs, preferred_time_slots)
    IN  IF errors # <<>>
        THEN [CUSTOMERS |-> customers, JOBS |-> jobs, lookup |-> IdleLookup,
              response |-> [op |-> "register_service_issue", code |-> 400,
                            status |-> "error", errors |-> errors]]
        ELSE IF prop.raised
        THEN [CUSTOMERS |-> customers, JOBS |-> jobs,
              lookup |-> LookupMade(pincode, region_label),
              response |-> ErrorResponse("register_service_issue", 500, "TypeError")]
        ELSE [CUSTOMERS |-> MapSet(customers, customer_id,
                  [full_name |-> full_name, phone |-> phone, email |-> email,
                   address_text |-> address_text, pincode |-> pincode,
                   region_label |-> region_label,
                   preferred_time_slots |-> preferred_time_slots]),
              JOBS |-> MapSet(jobs, job_id,
                  [request_type |-> "service", appliance_type |-> appliance_type,
                   model_if_known |-> payload.model_if_known,
                   fault_symptoms |-> fault_symptoms,
                   installation_details |-> <<>>,
                   urgency |-> payload.urgency, customer_id |-> customer_id]),
              lookup |-> LookupMade(pincode, region_label),
              response |-> [op |-> "register_service_issue", code |-> 200,
                            status |-> "ok", customer_id |-> customer_id,
                            job_id |-> job_id, region_label |-> region_label,
                            matched_tech_count |-> Len(techs),
                            proposed_slots |-> prop.proposals]]

\* ------------------------------------------------------- intake: installation

\* InstallationErrors that finds nothing wrong
InstallationErrorsNone(full_name, phone, email, pincode, appliance_type) == <<>>

\* the errors list of book_installation
InstallationErrors(full_name, phone, email, pincode, appliance_type) ==
    (IF full_name = <<>> THEN <<"full_name required">> ELSE <<>>)
    \o (IF ~validate_phone(phone) THEN <<"invalid phone">> ELSE <<>>)
    \o (IF email # <<>> /\ ~validate_email(email) THEN <<"invalid email">> ELSE <<>>)
    \o (IF ~validate_pincode(pincode) THEN <<"invalid pincode">> ELSE <<>>)
    \o (IF appliance_type = "" THEN <<"appliance_type required">> ELSE <<>>)

\* book_installation: the store and the response it leaves, and the
\* lookup_region call it made
book_installation(payload, svc, customer_id, job_id, customers, jobs) ==
    LET full_name == Strip(payload.full_name)
        phone == Strip(payload.phone)
        pincode == Strip(payload.pincode)
        appliance_type == payload.appliance_type
        preferred_time_slots == payload.preferred_time_slots
        email == Strip(payload.email)
        errors == InstallationErrors(full_name, phone, email, pincode, appliance_type)
        region_label == lookup_region(pincode, DefaultRetries, svc)
        techs == find_technicians_for(appliance_type, None, region_label)
        prop == ProposeForIntake(techs, preferred_time_slots)
    IN  IF errors # <<>>
        THEN [CUSTOMERS |-> customers, JOBS |-> jobs, lookup |-> IdleLookup,
              response |-> [op |-> "book_installation", code |-> 400,
                            status |-> "error", errors |-> errors]]
        ELSE IF prop.raised
        THEN [CUSTOMERS |-> customers, JOBS |-> jobs,
              lookup |-> LookupMade(pincode, region_label),
              response |-> ErrorResponse("book_installation", 500, "TypeError")]
        ELSE [CUSTOMERS |-> MapSet(customers, customer_id,
                  [full_name |-> full_name, phone |-> phone, email |-> email,
                   address_text |-> payload.address_text, pincode |-> pincode,
                   region_label |-> region_label,
                   preferred_time_slots |-> preferred_time_slots]),
              JOBS |-> MapSet(jobs, job_id,
                  [request_type |-> "installation", appliance_type |-> appliance_type,
                   model_if_known |-> payload.model_if_known,
                   fault_symptoms |-> <<>>,
                   installation_details |-> payload.installation_details,
                   urgency |-> payload.urgency, customer_id |-> customer_id]),
              lookup |-> LookupMade(pincode, region_label),
              response |-> [op |-> "book_installation", code |-> 200,
                            status |-> "ok", customer_id |-> customer_id,
                            job_id |-> job_id, region_label |-> region_label,
                            proposed_slots |-> prop.proposals]]

\* -------------------------------------------------------------- lifecycle

\* persist_appointment that returns a ticket id and stores nothing
persist_appointment_nowhere(appointments, ticket_id, appointment) == appointments

\* persist_appointment that files the appointment under its job
persist_appointment_by_job(appointments, ticket_id, appointment) ==
    MapSet(appointments, <<"TK", appointment.job_id[2]>>, appointment)

\* persist_appointment: APPOINTMENTS[ticket_id] = appointment
persist_appointment(appointments, ticket_id, appointment) ==
    MapSet(appointments, ticket_id, appointment)

\* create_crm_ticket, sync_calendar
create_crm_ticket(appointment) == "CRM-PLACEHOLDER"
sync_calendar(appointment) == "CAL-PLACEHOLDER"

\* the guard of confirm_booking on its four payload fields
ConfirmFieldsMissing(payload) ==
    \/ payload.customer_id = NoId
    \/ payload.job_id = NoId
    \/ payload.chosen_slot = NoSlot
    \/ ~Truthy(payload.technician_id)

\* the status code confirm_booking gives an unknown customer or job
ConfirmUnknownCode == 400

\* confirm_booking: the appointments and the response it leaves.  The dict
\* stored by persist_appointment is the one that then gets ticket_id, crm_id
\* and calendar_id, so the stored record has them.  rescheduled_at,
\* cancel_reason and cancelled_at are keys the new dict does not have.
confirm_booking(payload, now, ticket_id, customers, jobs, appointments) ==
    IF ConfirmFieldsMissing(payload)
    THEN [APPOINTMENTS |-> appointments,
          response |-> ErrorResponse("confirm_booking", 400,
              "customer_id, job_id, chosen_slot, technician_id required")]
    ELSE IF payload.customer_id \notin DOMAIN customers
            \/ payload.job_id \notin DOMAIN jobs
    THEN [APPOINTMENTS |-> appointments,
          response |-> ErrorResponse("confirm_booking", ConfirmUnknownCode,
              "invalid customer_id or job_id")]
    ELSE LET customer == customers[payload.customer_id]
             job == jobs[payload.job_id]
             built ==
                 [customer_id |-> payload.customer_id,
                  customer_name |-> customer.full_name,
                  phone |-> customer.phone,
                  email |-> customer.email,
                  address_text |-> customer.address_text,
                  pincode |-> customer.pincode,
                  region_label |-> customer.region_label,
                  appliance_type |-> job.appliance_type,
                  fault_symptoms |-> job.fault_symptoms,
                  technician_id |-> payload.technician_id,
                  slot_start |-> payload.chosen_slot.start,
                  slot_end |-> payload.chosen_slot.end,
                  status |-> "confirmed",
                  job_id |-> payload.job_id,
                  created_at |-> now,
                  rescheduled_at |-> 0,
                  cancel_reason |-> None,
                  cancelled_at |-> 0]
             appointment ==
                 built @@ [ticket_id |-> ticket_id,
                           crm_id |-> create_crm_ticket(built),
                           calendar_id |-> sync_calendar(built)]
         IN  [APPOINTMENTS |-> persist_appointment(appointments, ticket_id, appointment),
              response |-> [op |-> "confirm_booking", code |-> 200, status |-> "ok",
                            ticket_id |-> ticket_id, appointment |-> appointment]]

\* TechIndex that falls back on the first technician of the Directory
TechIndexOrFirst(technician_id) ==
    LET hits == {i \in DOMAIN TECHNICIANS_DATA : TECHNICIANS_DATA[i].id = technician_id}
    IN  IF hits = {} THEN 1 ELSE SetMin(hits)

\* next((t for t in TECHNICIANS_DATA if t["id"] == technician_id), None):
\* the index of the technician, 0 for None
TechIndex(technician_id) ==
    LET hits == {i \in DOMAIN TECHNICIANS_DATA : TECHNICIANS_DATA[i].id = technician_id}
    IN  IF hits = {} THEN 0 ELSE SetMin(hits)

\* SlotMatches on the start alone
SlotMatchesStart(tech, new_slot) ==
    \E i \in DOMAIN tech.availability_slots :
        tech.availability_slots[i].start = new_slot.start

\* the equality check of reschedule against the availability slots
SlotMatches(tech, new_slot) ==
    \E i \in DOMAIN tech.availability_slots :
        /\ tech.availability_slots[i].start = new_slot.start
        /\ tech.availability_slots[i].end = new_slot.end

\* RescheduleUpdate that leaves the recorded end of the slot alone
RescheduleUpdateStartOnly(appointment, new_slot, now) ==
    [appointment EXCEPT !.slot_start = new_slot.start,
                        !.status = "rescheduled",
                        !.rescheduled_at = now]

\* the update of the appointment dict by reschedule
RescheduleUpdate(appointment, new_slot, now) ==
    [appointment EXCEPT !.slot_start = new_slot.start,
                        !.slot_end = new_slot.end,
                        !.status = "rescheduled",
                        !.rescheduled_at = now]

\* reschedule: the appointments and the response it leaves
reschedule(payload, now, appointments) ==
    IF payload.ticket_id = NoId \/ payload.new_slot = NoSlot
    THEN [APPOINTMENTS |-> appointments,
          response |-> ErrorResponse("reschedule", 400, "ticket_id and new_slot required")]
    ELSE IF payload.ticket_id \notin DOMAIN appointments
    THEN [APPOINTMENTS |-> appointments,
          response |-> ErrorResponse("reschedule", 404, "ticket not found")]
    ELSE IF TechIndex(appointments[payload.ticket_id].technician_id) = 0
    THEN [APPOINTMENTS |-> appointments,
          response |-> ErrorResponse("reschedule", 404, "technician not found")]
    ELSE LET appointment == appointments[payload.ticket_id]
             tech == TECHNICIANS_DATA[TechIndex(appointment.technician_id)]
             updated == RescheduleUpdate(appointment, payload.new_slot, now)
         IN  IF ~SlotMatches(tech, payload.new_slot)
             THEN [APPOINTMENTS |-> appointments,
                   response |-> [op |-> "reschedule", code |-> 200, status |-> "no",
                                 message |-> "requested slot not available",
                                 alternative_slot |-> tech.availability_slots[1]]]
             ELSE [APPOINTMENTS |-> MapSet(appointments, payload.ticket_id, updated),
                   response |-> [op |-> "reschedule", code |-> 200, status |-> "ok",
                                 ticket_id |-> payload.ticket_id,
                                 appointment |-> updated]]

\* CancelUpdate that also releases the technician
CancelUpdateReleases(appointment, reason, now) ==
    [appointment EXCEPT !.status = "cancelled",
                        !.cancel_reason = reason,
                        !.cancelled_at = now,
                        !.technician_id = ""]

\* CancelUpdate that leaves an appointment alone once it is cancelled
CancelUpdateOnce(appointment, reason, now) ==
    IF appointment.status = "cancelled" THEN appointment
    ELSE [appointment EXCEPT !.status = "cancelled",
                             !.cancel_reason = reason,
                             !.cancelled_at = now]

\* the update of the appointment dict by cancel
CancelUpdate(appointment, reason, now) ==
    [appointment EXCEPT !.status = "cancelled",
                        !.cancel_reason = reason,
                        !.cancelled_at = now]

\* cancel: the appointments and the response it leaves
cancel(payload, now, appointments) ==
    IF payload.ticket_id = NoId
    THEN [APPOINTMENTS |-> appointments,
          response |-> ErrorResponse("cancel", 400, "ticket_id required")]
    ELSE IF payload.ticket_id \notin DOMAIN appointments
    THEN [APPOINTMENTS |-> appointments,
          response |-> ErrorResponse("cancel", 404, "ticket not found")]
    ELSE [APPOINTMENTS |-> MapSet(appointments, payload.ticket_id,
              CancelUpdate(appointments[payload.ticket_id], payload.reason, now)),
          response |-> [op |-> "cancel", code |-> 200, status |-> "ok",
                        ticket_id |-> payload.ticket_id]]

\* ------------------------------------------------------- customer updates

\* update_contact: the customers and the response it leaves.  A phone or email
\* that is None or "" is skipped; the phone is written before the email is
\* validated.
update_contact(payload, customers) ==
    IF payload.customer_id = NoId
    THEN [CUSTOMERS |-> customers,
          response |-> ErrorResponse("update_contact", 400, "customer_id required")]
    ELSE IF payload.customer_id \notin DOMAIN customers
    THEN [CUSTOMERS |-> customers,
          response |-> ErrorResponse("update_contact", 404, "customer not found")]
    ELSE IF payload.phone # <<>> /\ ~validate_phone(payload.phone)
    THEN [CUSTOMERS |-> customers,
          response |-> ErrorResponse("update_contact", 400, "invalid phone")]
    ELSE LET customer == customers[payload.customer_id]
             c1 == IF payload.phone # <<>>
                   THEN [customer EXCEPT !.phone = payload.phone] ELSE customer
             c2 == IF payload.email # <<>>
                   THEN [c1 EXCEPT !.email = payload.email] ELSE c1
         IN  IF payload.email # <<>> /\ ~validate_email(payload.email)
             THEN [CUSTOMERS |-> MapSet(customers, payload.customer_id, c1),
                   response |-> ErrorResponse("update_contact", 400, "invalid email")]
             ELSE [CUSTOMERS |-> MapSet(customers, payload.customer_id, c2),
                   response |-> [op |-> "update_contact", code |-> 200,
                                 status |-> "ok", customer |-> c2]]

\* the two writes of change_address for a valid pincode
AddressUpdate(customer, pincode, region_label) ==
    [customer EXCEPT !.pincode = pincode, !.region_label = region_label]

\* change_address: the customers and the response it leaves, and the
\* lookup_region call it made.  The address text is written before the pincode
\* is validated; the pincode is stored and looked up as given (not stripped).
change_address(payload, svc, customers) ==
    IF payload.customer_id = NoId
    THEN [CUSTOMERS |-> customers, lookup |-> IdleLookup,
          response |-> ErrorResponse("change_address", 400, "customer_id required")]
    ELSE IF payload.customer_id \notin DOMAIN customers
    THEN [CUSTOMERS |-> customers, lookup |-> IdleLookup,
          response |-> ErrorResponse("change_address", 404, "customer not found")]
    ELSE LET customer == customers[payload.customer_id]
             region_label == lookup_region(payload.pincode, DefaultRetries, svc)
             c1 == IF payload.address_text # <<>>
                   THEN [customer EXCEPT !.address_text = payload.address_text]
                   ELSE customer
             c2 == IF payload.pincode # <<>>
                   THEN AddressUpdate(c1, payload.pincode, region_label)
                   ELSE c1
         IN  IF payload.pincode # <<>> /\ ~validate_pincode(payload.pincode)
             THEN [CUSTOMERS |-> MapSet(customers, payload.customer_id, c1),
                   lookup |-> IdleLookup,
                   response |-> ErrorResponse("change_address", 400, "invalid pincode")]
             ELSE [CUSTOMERS |-> MapSet(customers, payload.customer_id, c2),
                   lookup |-> IF payload.pincode # <<>>
                              THEN LookupMade(payload.pincode, region_label)
                              ELSE IdleLookup,
                   response |-> [op |-> "change_address", code |-> 200,
                                 status |-> "ok", customer |-> c2]]

\* ------------------------------------------------------------ input values

NameAsha == <<"A","s","h","a">>
PhoneA == <<"9","8","7","6","5","4","3","2","1","0">>
PhoneB == <<"9","1","-","2","3","4","5","6","7","8","0">>
PhoneBad == <<"1","2","3","4","5">>
EmailA == <<"a","@","b",".","i","n">>
EmailB == <<"c",".","d","@","e","-","f",".","o","r","g">>
EmailBad == <<"a","@","b">>
AddrA == <<"1"," ","M","G"," ","R","d">>
AddrB == <<"2"," ","H","i","l","l">>

\* a timestamp text in another offset or form than the Directory's
TSIn(d, h, mi, tz, fmt) == [d |-> d, m |-> h * 60 + mi, tz |-> tz, fmt |-> fmt]

T01 == TECHNICIANS_DATA[1]
T03 == TECHNICIANS_DATA[3]

\* the service behaviours the handlers of Spec run against, one response per
\* attempt of a lookup_region call
SvcRuns == {
    <<SvcRaise("ConnectionError"), SvcRaise("Timeout"), SvcStatus(500)>>,
    <<SvcStatus(404), SvcPlaces(<<>>),
      SvcPlaces(<<Place({"state", "place name"}, Karnataka, Bangalore)>>)>> }

ServiceBase ==
    [full_name |-> NameAsha, phone |-> PhoneA, email |-> EmailA,
     address_text |-> AddrA, pincode |-> Pin560001,
     preferred_time_slots |-> <<Slot(TS(20,10,0), TS(20,12,0))>>,
     appliance_type |-> "WashingMachine", fault_symptoms |-> <<"wm_vibration">>,
     urgency |-> "normal", model_if_known |-> ""]

ServicePayloads == {
    ServiceBase,
    [ServiceBase EXCEPT !.full_name = Blank, !.email = EmailBad],
    [ServiceBase EXCEPT !.preferred_time_slots =
        <<Slot(TSIn(20,10,0,"","iso"), TSIn(20,12,0,"","iso"))>>] }

InstallationBase ==
    [full_name |-> NameAsha, phone |-> PhoneA, email |-> <<>>,
     address_text |-> AddrA, pincode |-> Pin999999,
     preferred_time_slots |-> <<>>,
     appliance_type |-> "AC", installation_details |-> <<"wall mount">>,
     urgency |-> "normal", model_if_known |-> ""]

InstallationPayloads == {
    InstallationBase,
    [InstallationBase EXCEPT !.pincode = Pin56, !.phone = PhoneBad] }

UnknownCustomer == <<"CUST", 0>>
UnknownJob == <<"JOB", 0>>
UnknownTicket == <<"TK", 0>>

\* slots a caller may name: two of tech_01's, one inside the first, the second
\* written in UTC, one of tech_03's
SlotInside == Slot(TS(20,10,30), TS(20,11,30))
SlotUtc == Slot(TSIn(20,9,30,"+00:00","iso"), TSIn(20,10,30,"+00:00","iso"))
SlotMixed == Slot(T01.availability_slots[1].start, T01.availability_slots[2].end)

ConfirmSlots == {T01.availability_slots[1], SlotInside}
ConfirmTechs == {"tech_01", "tech_99"}

ConfirmPayloads ==
    {[customer_id |-> c, job_id |-> j, chosen_slot |-> s, technician_id |-> t] :
        c \in CustomerIds, j \in JobIds, s \in ConfirmSlots, t \in ConfirmTechs}
    \cup {[customer_id |-> UnknownCustomer, job_id |-> <<"JOB", 1>>,
           chosen_slot |-> SlotInside, technician_id |-> "tech_01"],
          [customer_id |-> <<"CUST", 1>>, job_id |-> UnknownJob,
           chosen_slot |-> SlotInside, technician_id |-> "tech_01"],
          [customer_id |-> <<"CUST", 1>>, job_id |-> <<"JOB", 1>>,
           chosen_slot |-> NoSlot, technician_id |-> "tech_01"]}

RescheduleSlots ==
    {T01.availability_slots[1], T01.availability_slots[2], SlotInside, SlotUtc,
     SlotMixed, T03.availability_slots[1]}

ReschedulePayloads ==
    {[ticket_id |-> t, new_slot |-> s] :
        t \in TicketIds, s \in RescheduleSlots}
    \cup {[ticket_id |-> UnknownTicket, new_slot |-> T01.availability_slots[1]],
          [ticket_id |-> <<"TK", 1>>, new_slot |-> NoSlot]}

CancelPayloads ==
    {[ticket_id |-> t, reason |-> r] : t \in TicketIds, r \in {"", "moved"}}
    \cup {[ticket_id |-> t, reason |-> ""] : t \in {NoId, UnknownTicket}}

ContactPayloads ==
    {[customer_id |-> c, phone |-> PhoneB, email |-> <<>>] :
        c \in CustomerIds \cup {UnknownCustomer}}

AddressPayloads ==
    {[customer_id |-> c, address_text |-> AddrB, pincode |-> <<>>] :
        c \in CustomerIds \cup {UnknownCustomer}}

\* ---------------------------------------------------------------- actions

\* Each handler action leaves in lr the lookup_region call the handler made
\* (IdleLookup when it made none).

IdleCall == [op |-> "idle"]
NoMessage == [op |-> "none"]
NoThreads == <<>>

\* The three handlers that draw a uuid4 identifier take the identifiers the
\* draw may give; the draw is taken to give one not yet in the store.
RegisterServiceIssueFrom(payload, customer_ids, job_ids) ==
    \E svc \in SvcRuns :
    \E customer_id \in Fresh(customer_ids, DOMAIN CUSTOMERS) :
    \E job_id \in Fresh(job_ids, DOMAIN JOBS) :
        \E r \in {register_service_issue(payload, svc, customer_id, job_id,
                                        CUSTOMERS, JOBS)} :
            /\ r.response.code = 200 => customer_id # NoId /\ job_id # NoId
            /\ CUSTOMERS' = r.CUSTOMERS
            /\ JOBS' = r.JOBS
            /\ response' = r.response
            /\ request' = [op |-> "register_service_issue", payload |-> payload]
            /\ lr' = r.lookup
            /\ UNCHANGED <<APPOINTMENTS, fn, threads>>

RegisterServiceIssue(payload) == RegisterServiceIssueFrom(payload, CustomerIds, JobIds)

BookInstallationFrom(payload, customer_ids, job_ids) ==
    \E svc \in SvcRuns :
    \E customer_id \in Fresh(customer_ids, DOMAIN CUSTOMERS) :
    \E job_id \in Fresh(job_ids, DOMAIN JOBS) :
        \E r \in {book_installation(payload, svc, customer_id, job_id,
                                   CUSTOMERS, JOBS)} :
            /\ r.response.code = 200 => customer_id # NoId /\ job_id # NoId
            /\ CUSTOMERS' = r.CUSTOMERS
            /\ JOBS' = r.JOBS
            /\ response' = r.response
            /\ request' = [op |-> "book_installation", payload |-> payload]
            /\ lr' = r.lookup
            /\ UNCHANGED <<APPOINTMENTS, fn, threads>>

BookInstallation(payload) == BookInstallationFrom(payload, CustomerIds, JobIds)

ConfirmBookingFrom(payload, ticket_ids) ==
    \E now \in Clock :
    \E ticket_id \in Fresh(ticket_ids, DOMAIN APPOINTMENTS) :
        \E r \in {confirm_booking(payload, now, ticket_id,
                                 CUSTOMERS, JOBS, APPOINTMENTS)} :
            /\ r.response.code = 200 => ticket_id # NoId
            /\ APPOINTMENTS' = r.APPOINTMENTS
            /\ response' = r.response
            /\ request' = [op |-> "confirm_booking", payload |-> payload]
            /\ lr' = IdleLookup
            /\ UNCHANGED <<CUSTOMERS, JOBS, fn, threads>>

ConfirmBooking(payload) == ConfirmBookingFrom(payload, TicketIds)

Reschedule(payload) ==
    \E now \in Clock :
        \E r \in {reschedule(payload, now, APPOINTMENTS)} :
            /\ APPOINTMENTS' = r.APPOINTMENTS
            /\ response' = r.response
            /\ request' = [op |-> "reschedule", payload |-> payload]
            /\ lr' = IdleLookup
            /\ UNCHANGED <<CUSTOMERS, JOBS, fn, threads>>

Cancel(payload) ==
    \E now \in Clock :
        \E r \in {cancel(payload, now, APPOINTMENTS)} :
            /\ APPOINTMENTS' = r.APPOINTMENTS
            /\ response' = r.response
            /\ request' = [op |-> "cancel", payload |-> payload]
            /\ lr' = IdleLookup
            /\ UNCHANGED <<CUSTOMERS, JOBS, fn, threads>>

UpdateContact(payload) ==
    \E r \in {update_contact(payload, CUSTOMERS)} :
        /\ CUSTOMERS' = r.CUSTOMERS
        /\ response' = r.response
        /\ request' = [op |-> "update_contact", payload |-> payload]
        /\ lr' = IdleLookup
        /\ UNCHANGED <<JOBS, APPOINTMENTS, fn, threads>>

ChangeAddress(payload) ==
    \E svc \in SvcRuns :
        \E r \in {change_address(payload, svc, CUSTOMERS)} :
            /\ CUSTOMERS' = r.CUSTOMERS
            /\ response' = r.response
            /\ request' = [op |-> "change_address", payload |-> payload]
            /\ lr' = r.lookup
            /\ UNCHANGED <<JOBS, APPOINTMENTS, fn, threads>>

\* The store as the module leaves it at import: three empty dicts
Init ==
    /\ CUSTOMERS = EmptyMap
    /\ JOBS = EmptyMap
    /\ APPOINTMENTS = EmptyMap
    /\ request = NoMessage
    /\ response = NoMessage
    /\ lr = IdleLookup
    /\ fn = IdleCall
    /\ threads = NoThreads

Next ==
    \/ \E p \in ServicePayloads : RegisterServiceIssue(p)
    \/ \E p \in InstallationPayloads : BookInstallation(p)
    \/ \E p \in ConfirmPayloads : ConfirmBooking(p)
    \/ \E p \in ReschedulePayloads : Reschedule(p)
    \/ \E p \in CancelPayloads : Cancel(p)
    \/ \E p \in ContactPayloads : UpdateContact(p)
    \/ \E p \in AddressPayloads : ChangeAddress(p)

Spec == Init /\ [][Next]_vars

\* ------------------------------------------- lookup_region, step by step

LookupPincodes == {Pin560001, Pin400001, Pin110001, Pin999999, Pin56, PinPadded, <<>>}

SvcPlaceRecords == {
    Place({"state", "place name"}, Karnataka, Bangalore),
    Place({"state", "place name"}, Karnataka, BengaluruUrban),
    Place({"state"}, DelhiUpper, <<>>),
    Place({"state", "place name"}, NewDelhi, Del),
    Place({"state"}, Del, <<>>),
    Place({"place name"}, <<>>, Bangalore),
    Place({"state", "place name"}, Blank, Blank),
    Place({}, <<>>, <<>>) }

SvcFailures == {SvcRaise("ConnectionError"), SvcRaise("Timeout"),
                SvcStatus(404), SvcStatus(500), SvcPlaces(<<>>)}

SvcResponses == SvcFailures \cup {SvcPlaces(<<p>>) : p \in SvcPlaceRecords}

\* One call lookup_region(pincode, retries): the locals of its frame, the
\* responses its GETs received so far, and whether it read REGIONS_CACHE by
\* prefix.
InitResolve ==
    /\ CUSTOMERS = EmptyMap
    /\ JOBS = EmptyMap
    /\ APPOINTMENTS = EmptyMap
    /\ request = NoMessage
    /\ response = NoMessage
    /\ fn = IdleCall
    /\ threads = NoThreads
    /\ lr \in {[pc |-> "loop", pincode |-> p, retries |-> r, attempts |-> 0,
                calls |-> <<>>, result |-> <<>>, table_used |-> FALSE] :
                   p \in LookupPincodes, r \in 0..MaxRetries}

\* One pass of the while loop: the GET, then return or attempts += 1
LookupAttempt ==
    /\ lr.pc = "loop"
    /\ LoopGuard(lr.attempts, lr.retries)
    /\ \E resp \in SvcResponses :
        \E o \in {TryAttempt(resp)} :
            lr' = IF o.ret
                  THEN [lr EXCEPT !.pc = "done", !.result = o.val,
                                  !.calls = Append(@, resp)]
                  ELSE [lr EXCEPT !.attempts = @ + 1, !.calls = Append(@, resp)]
    /\ UNCHANGED <<CUSTOMERS, JOBS, APPOINTMENTS, request, response, fn, threads>>

\* The loop is left: the cached mapping by prefix
LookupFallback ==
    /\ lr.pc = "loop"
    /\ ~LoopGuard(lr.attempts, lr.retries)
    /\ lr' = [lr EXCEPT !.pc = "done", !.result = FallbackRegion(lr.pincode),
                        !.table_used = TRUE]
    /\ UNCHANGED <<CUSTOMERS, JOBS, APPOINTMENTS, request, response, fn, threads>>

NextResolve == LookupAttempt \/ LookupFallback

SpecResolve == InitResolve /\ [][NextResolve]_vars

\* The call runs on: a GET returns or times out, and the thread takes its
\* next step
SpecResolveFair == SpecResolve /\ WF_vars(NextResolve)

\* --------------------------------------------------- find_technicians_for

MatchAppliances == {"AC", "WashingMachine", "Refrigerator", "TV", "WaterPurifier",
                    "Oven", ""}
MatchSkills == {None, "", "wm_vibration", "ac_leak", "ac_airflow", "ac_cooling",
                "ac_noise", "fridge_temp", "waterpurifier_filter", "plumbing"}
MatchRegions == {BengaluruUrban, MumbaiSuburban, Central, West, Delhi, Unknown,
                 Karnataka}

InitMatch ==
    /\ CUSTOMERS = EmptyMap
    /\ JOBS = EmptyMap
    /\ APPOINTMENTS = EmptyMap
    /\ request = NoMessage
    /\ response = NoMessage
    /\ lr = IdleLookup
    /\ threads = NoThreads
    /\ fn \in {[op |-> "find_technicians_for", appliance |-> a, required_skill |-> k,
                region_label |-> r, done |-> FALSE, result |-> <<>>] :
                   a \in MatchAppliances, k \in MatchSkills, r \in MatchRegions}

MatchCall ==
    /\ fn.op = "find_technicians_for"
    /\ ~fn.done
    /\ fn' = [fn EXCEPT !.done = TRUE,
                        !.result = find_technicians_for(fn.appliance,
                                       fn.required_skill, fn.region_label)]
    /\ UNCHANGED <<CUSTOMERS, JOBS, APPOINTMENTS, request, response, lr, threads>>

NextMatch == MatchCall

SpecMatch == InitMatch /\ [][NextMatch]_vars

\* ------------------------------------------------------------ propose_slots

MaxTarget == 3

\* Preferred intervals a customer may send: tech_01's first slot, one before
\* it, one touching its end, one across both of tech_01's slots, the first
\* slot written in UTC, one across tech_03's first slot, one without offsets,
\* one that does not parse
PrefIntervals == {
    Slot(TS(20,10,0), TS(20,12,0)),
    Slot(TS(20,8,0), TS(20,9,0)),
    Slot(TS(20,12,0), TS(20,13,0)),
    Slot(TS(20,11,0), TS(20,15,30)),
    Slot(TSIn(20,4,30,"+00:00","iso"), TSIn(20,6,30,"+00:00","iso")),
    Slot(TS(22,9,0), TS(22,18,0)),
    Slot(TSIn(20,10,0,"","iso"), TSIn(20,12,0,"","iso")),
    Slot(TSIn(0,0,0,"","bad"), TS(20,12,0)) }

\* the lists of at most n elements of S
RECURSIVE SeqsUpTo(_, _)
SeqsUpTo(S, n) ==
    IF n = 0 THEN {<<>>}
    ELSE LET shorter == SeqsUpTo(S, n - 1)
         IN  shorter \cup {Append(q, x) : q \in shorter, x \in S}

InitPropose ==
    /\ CUSTOMERS = EmptyMap
    /\ JOBS = EmptyMap
    /\ APPOINTMENTS = EmptyMap
    /\ request = NoMessage
    /\ response = NoMessage
    /\ lr = IdleLookup
    /\ threads = NoThreads
    /\ fn \in {[op |-> "propose_slots", tech |-> t, prefs |-> q, max_proposals |-> n,
                done |-> FALSE, result |-> [raised |-> FALSE, proposals |-> <<>>]] :
                   t \in DOMAIN TECHNICIANS_DATA,
                   q \in SeqsUpTo(PrefIntervals, MaxPrefs),
                   n \in 1..MaxTarget}

ProposeCall ==
    /\ fn.op = "propose_slots"
    /\ ~fn.done
    /\ fn' = [fn EXCEPT !.done = TRUE,
                        !.result = propose_slots(TECHNICIANS_DATA[fn.tech],
                                                 fn.prefs, fn.max_proposals)]
    /\ UNCHANGED <<CUSTOMERS, JOBS, APPOINTMENTS, request, response, lr, threads>>

NextPropose == ProposeCall

SpecPropose == InitPropose /\ [][NextPropose]_vars

\* ------------------------------------------- intake: the proposal block
\* One run of the proposal block of an intake handler: the technicians are a
\* result of find_technicians_for, the preferred intervals come from the payload.

InitAggregate ==
    /\ CUSTOMERS = EmptyMap
    /\ JOBS = EmptyMap
    /\ APPOINTMENTS = EmptyMap
    /\ request = NoMessage
    /\ response = NoMessage
    /\ lr = IdleLookup
    /\ threads = NoThreads
    /\ fn \in {[op |-> "proposal_block",
                techs |-> find_technicians_for(a, k, r), prefs |-> q,
                done |-> FALSE, result |-> [raised |-> FALSE, proposals |-> <<>>]] :
                   a \in {"AC", "WashingMachine", "Refrigerator", "Oven"},
                   k \in {None, "ac_leak"},
                   r \in {BengaluruUrban, MumbaiSuburban, Central, Unknown},
                   q \in SeqsUpTo(PrefIntervals, MaxPrefs)}

AggregateCall ==
    /\ fn.op = "proposal_block"
    /\ ~fn.done
    /\ fn' = [fn EXCEPT !.done = TRUE, !.result = ProposeForIntake(fn.techs, fn.prefs)]
    /\ UNCHANGED <<CUSTOMERS, JOBS, APPOINTMENTS, request, response, lr, threads>>

NextAggregate == AggregateCall

SpecAggregate == InitAggregate /\ [][NextAggregate]_vars

\* ------------------------------------------------------ a store of several
\* The handlers that create records, and cancel, over a store that has room
\* for MaxRecords customers, jobs and appointments.

MaxRecords == 2

StoreCustomerIds == {<<"CUST", n>> : n \in 1..MaxRecords}
StoreJobIds == {<<"JOB", n>> : n \in 1..MaxRecords}
StoreTicketIds == {<<"TK", n>> : n \in 1..MaxRecords}

StoreConfirmPayloads ==
    {[customer_id |-> c, job_id |-> j,
      chosen_slot |-> T01.availability_slots[1], technician_id |-> "tech_01"] :
        c \in StoreCustomerIds, j \in StoreJobIds}
StoreCancelPayloads == {[ticket_id |-> t, reason |-> "moved"] : t \in StoreTicketIds}

NextStore ==
    \/ \E p \in ServicePayloads :
           RegisterServiceIssueFrom(p, StoreCustomerIds, StoreJobIds)
    \/ \E p \in InstallationPayloads :
           BookInstallationFrom(p, StoreCustomerIds, StoreJobIds)
    \/ \E p \in StoreConfirmPayloads : ConfirmBookingFrom(p, StoreTicketIds)
    \/ \E p \in StoreCancelPayloads : Cancel(p)

SpecStore == Init /\ [][NextStore]_vars

\* the store after one intake and one confirm of a slot inside tech_01's first
StoreAfterIntake ==
    register_service_issue(ServiceBase, CHOOSE svc \in SvcRuns : TRUE,
                           <<"CUST", 1>>, <<"JOB", 1>>, EmptyMap, EmptyMap)
StoreAfterConfirm ==
    confirm_booking([customer_id |-> <<"CUST", 1>>, job_id |-> <<"JOB", 1>>,
                     chosen_slot |-> SlotInside, technician_id |-> "tech_01"],
                    1, <<"TK", 1>>, StoreAfterIntake.CUSTOMERS,
                    StoreAfterIntake.JOBS, EmptyMap)

\* ------------------------------------------------- lifecycle of two tickets
\* A customer with a job, confirmed up to MaxRecords times, with the
\* lifecycle, the customer updates and further intake running on.

LifecycleConfirmPayloads ==
    {[customer_id |-> <<"CUST", 1>>, job_id |-> <<"JOB", 1>>,
      chosen_slot |-> SlotInside, technician_id |-> "tech_01"]}
LifecycleAddressPayloads ==
    {[customer_id |-> <<"CUST", 1>>, address_text |-> AddrB, pincode |-> Pin400001]}
LifecycleReschedulePayloads ==
    {[ticket_id |-> t, new_slot |-> T01.availability_slots[2]] : t \in StoreTicketIds}

InitLifecycle ==
    /\ CUSTOMERS = StoreAfterIntake.CUSTOMERS
    /\ JOBS = StoreAfterIntake.JOBS
    /\ APPOINTMENTS = EmptyMap
    /\ request = NoMessage
    /\ response = NoMessage
    /\ lr = IdleLookup
    /\ fn = IdleCall
    /\ threads = NoThreads

NextLifecycle ==
    \/ \E p \in InstallationPayloads :
           BookInstallationFrom(p, StoreCustomerIds, StoreJobIds)
    \/ \E p \in LifecycleConfirmPayloads : ConfirmBookingFrom(p, StoreTicketIds)
    \/ \E p \in LifecycleReschedulePayloads : Reschedule(p)
    \/ \E p \in StoreCancelPayloads : Cancel(p)
    \/ \E p \in ContactPayloads : UpdateContact(p)
    \/ \E p \in AddressPayloads \cup LifecycleAddressPayloads : ChangeAddress(p)

SpecLifecycle == InitLifecycle /\ [][NextLifecycle]_vars

\* ------------------------------------------------------ customer updates
\* Intake followed by update_contact and change_address calls whose payloads
\* carry every mix of absent, valid and invalid fields.

CustomerContactPayloads ==
    {[customer_id |-> c, phone |-> ph, email |-> em] :
        c \in CustomerIds \cup {UnknownCustomer},
        ph \in {<<>>, PhoneB, PhoneBad}, em \in {<<>>, EmailB, EmailBad}}

CustomerAddressPayloads ==
    {[customer_id |-> c, address_text |-> a, pincode |-> pc] :
        c \in CustomerIds \cup {UnknownCustomer},
        a \in {<<>>, AddrB}, pc \in {<<>>, Pin400001, PinPadded, Pin56}}

NextCustomer ==
    \/ \E p \in ServicePayloads : RegisterServiceIssue(p)
    \/ \E p \in CustomerContactPayloads : UpdateContact(p)
    \/ \E p \in CustomerAddressPayloads : ChangeAddress(p)

SpecCustomer == Init /\ [][NextCustomer]_vars

\* ------------------------------------------------ concurrent lifecycle calls
\* app.run serves each request in a thread of its own; reschedule and cancel
\* hold no lock, so two calls interleave between their statements.  A frame of
\* `threads` is one call: its payload, the statement it is at, its status code.

MaxThreads == 2

\* the calls a thread may be serving
ThreadCalls ==
    {[op |-> "reschedule", payload |-> [ticket_id |-> <<"TK", 1>>, new_slot |-> ns]] :
        ns \in {T01.availability_slots[1], T01.availability_slots[2], SlotMixed}}
    \cup {[op |-> "cancel", payload |-> [ticket_id |-> <<"TK", 1>>, reason |-> "moved"]],
          [op |-> "cancel", payload |-> [ticket_id |-> UnknownTicket, reason |-> ""]]}

InitThreads ==
    /\ CUSTOMERS = StoreAfterIntake.CUSTOMERS
    /\ JOBS = StoreAfterIntake.JOBS
    /\ APPOINTMENTS = StoreAfterConfirm.APPOINTMENTS
    /\ request = NoMessage
    /\ response = NoMessage
    /\ lr = IdleLookup
    /\ fn = IdleCall
    /\ threads \in [1..MaxThreads ->
                       {[op |-> c.op, payload |-> c.payload, pc |-> "start", code |-> 0] :
                            c \in ThreadCalls}]

\* thread i moves to statement pc, the appointment of its ticket becoming a
ThreadWrites(i, a, pc) ==
    /\ APPOINTMENTS' = [APPOINTMENTS EXCEPT ![threads[i].payload.ticket_id] = a]
    /\ threads' = [threads EXCEPT ![i].pc = pc]
    /\ UNCHANGED <<CUSTOMERS, JOBS, request, response, lr, fn>>

\* thread i returns with a status code
ThreadReturns(i, code) ==
    /\ threads' = [threads EXCEPT ![i].pc = "done", ![i].code = code]
    /\ UNCHANGED <<CUSTOMERS, JOBS, APPOINTMENTS, request, response, lr, fn>>

\* reschedule up to its update: the reads and the equality check
RescheduleCheck(i) ==
    /\ threads[i].op = "reschedule" /\ threads[i].pc = "start"
    /\ LET r == reschedule(threads[i].payload, 1, APPOINTMENTS)
       IN  IF r.response.code = 200 /\ r.response.status = "ok"
           THEN /\ threads' = [threads EXCEPT ![i].pc = "slot_start"]
                /\ UNCHANGED <<CUSTOMERS, JOBS, APPOINTMENTS, request, response, lr, fn>>
           ELSE ThreadReturns(i, r.response.code)

\* appointment["slot_start"] = new_slot.get("start")
RescheduleSetStart(i) ==
    /\ threads[i].op = "reschedule" /\ threads[i].pc = "slot_start"
    /\ ThreadWrites(i, [APPOINTMENTS[threads[i].payload.ticket_id]
                           EXCEPT !.slot_start = threads[i].payload.new_slot.start],
                    "slot_end")

\* appointment["slot_end"] = new_slot.get("end")
RescheduleSetEnd(i) ==
    /\ threads[i].op = "reschedule" /\ threads[i].pc = "slot_end"
    /\ ThreadWrites(i, [APPOINTMENTS[threads[i].payload.ticket_id]
                           EXCEPT !.slot_end = threads[i].payload.new_slot.end],
                    "status")

\* appointment["status"] = "rescheduled"
RescheduleSetStatus(i) ==
    /\ threads[i].op = "reschedule" /\ threads[i].pc = "status"
    /\ ThreadWrites(i, [APPOINTMENTS[threads[i].payload.ticket_id]
                           EXCEPT !.status = "rescheduled"],
                    "rescheduled_at")

\* appointment["rescheduled_at"] = now, and the return
RescheduleStamp(i) ==
    /\ threads[i].op = "reschedule" /\ threads[i].pc = "rescheduled_at"
    /\ \E now \in Clock :
           /\ APPOINTMENTS' = [APPOINTMENTS EXCEPT
                  ![threads[i].payload.ticket_id].rescheduled_at = now]
           /\ threads' = [threads EXCEPT ![i].pc = "done", ![i].code = 200]
           /\ UNCHANGED <<CUSTOMERS, JOBS, request, response, lr, fn>>

\* cancel up to its update
CancelCheck(i) ==
    /\ threads[i].op = "cancel" /\ threads[i].pc = "start"
    /\ LET r == cancel(threads[i].payload, 1, APPOINTMENTS)
       IN  IF r.response.code = 200
           THEN /\ threads' = [threads EXCEPT ![i].pc = "status"]
                /\ UNCHANGED <<CUSTOMERS, JOBS, APPOINTMENTS, request, response, lr, fn>>
           ELSE ThreadReturns(i, r.response.code)

\* appointment["status"] = "cancelled"
CancelSetStatus(i) ==
    /\ threads[i].op = "cancel" /\ threads[i].pc = "status"
    /\ ThreadWrites(i, [APPOINTMENTS[threads[i].payload.ticket_id]
                           EXCEPT !.status = "cancelled"],
                    "cancel_reason")

\* appointment["cancel_reason"] = reason
CancelSetReason(i) ==
    /\ threads[i].op = "cancel" /\ threads[i].pc = "cancel_reason"
    /\ ThreadWrites(i, [APPOINTMENTS[threads[i].payload.ticket_id]
                           EXCEPT !.cancel_reason = threads[i].payload.reason],
                    "cancelled_at")

\* appointment["cancelled_at"] = now, and the return
CancelStamp(i) ==
    /\ threads[i].op = "cancel" /\ threads[i].pc = "cancelled_at"
    /\ \E now \in Clock :
           /\ APPOINTMENTS' = [APPOINTMENTS EXCEPT
                  ![threads[i].payload.ticket_id].cancelled_at = now]
           /\ threads' = [threads EXCEPT ![i].pc = "done", ![i].code = 200]
           /\ UNCHANGED <<CUSTOMERS, JOBS, request, response, lr, fn>>

NextThreads ==
    \/ \E i \in DOMAIN threads : RescheduleCheck(i)
    \/ \E i \in DOMAIN threads : RescheduleSetStart(i)
    \/ \E i \in DOMAIN threads : RescheduleSetEnd(i)
    \/ \E i \in DOMAIN threads : RescheduleSetStatus(i)
    \/ \E i \in DOMAIN threads : RescheduleStamp(i)
    \/ \E i \in DOMAIN threads : CancelCheck(i)
    \/ \E i \in DOMAIN threads : CancelSetStatus(i)
    \/ \E i \in DOMAIN threads : CancelSetReason(i)
    \/ \E i \in DOMAIN threads : CancelStamp(i)

SpecThreads == InitThreads /\ [][NextThreads]_vars

\* ------------------------------------------------------------------ claims

\* C1: once an appointment's status is cancelled it stays cancelled under
\* every further operation (confirm, reschedule, cancel, update-contact,
\* update-address).
CancelledIsTerminal ==
    [][\A t \in DOMAIN APPOINTMENTS :
          APPOINTMENTS[t].status = "cancelled"
              => APPOINTMENTS'[t].status = "cancelled"]_vars

\* a lookup attempt that failed: transport failure or timeout, a status other
\* than 200, or a 200 response without a place record
AttemptFailed(resp) ==
    \/ resp.kind # "http"
    \/ resp.status # 200
    \/ resp.places = <<>>

ResolveAttemptsWithinBudget ==
    lr.pc \in {"loop", "done"} =>
        /\ Len(lr.calls) <= lr.retries + 1
        /\ \A k \in 1..(Len(lr.calls) - 1) : AttemptFailed(lr.calls[k])
        /\ lr.attempts = Cardinality({k \in 1..Len(lr.calls) : AttemptFailed(lr.calls[k])})
        /\ (lr.calls # <<>> /\ ~AttemptFailed(lr.calls[Len(lr.calls)])
               => lr.pc = "done" /\ ~lr.table_used)
        /\ (lr.table_used
               => /\ Len(lr.calls) = lr.retries + 1
                  /\ \A k \in 1..Len(lr.calls) : AttemptFailed(lr.calls[k]))
        /\ (lr.pc = "done" /\ ~lr.table_used
               => lr.calls # <<>> /\ ~AttemptFailed(lr.calls[Len(lr.calls)]))

\* C3 witness: two failed attempts, then a place record on the third and last
\* attempt of budget 2, returned without reading the table.
ResolveSucceedsOnLastAttempt ==
    /\ lr.pc = "done"
    /\ lr.retries = 2
    /\ Len(lr.calls) = 3
    /\ ~AttemptFailed(lr.calls[3])
    /\ ~lr.table_used

\* the technicians of the Directory that the three filter predicates admit,
\* by position
Qualifying(appliance, required_skill, region_label) ==
    {i \in DOMAIN TECHNICIANS_DATA :
        /\ appliance \in Range(TECHNICIANS_DATA[i].appliances_supported)
        /\ region_label \in Range(TECHNICIANS_DATA[i].regions)
        /\ \/ required_skill \in {None, ""}
           \/ required_skill \in Range(TECHNICIANS_DATA[i].skills)}

\* C4: the match is exactly the qualifying technicians in Directory order
\* (empty when none qualifies); AC in Bengaluru Urban with no skill gives
\* tech_01, tech_03.  A skill that is None or "" is an absent skill.
MatchIsFilteredDirectoryOrder ==
    fn.op = "find_technicians_for" /\ fn.done =>
        LET q == Qualifying(fn.appliance, fn.required_skill, fn.region_label)
        IN  /\ Len(fn.result) = Cardinality(q)
            /\ \A k \in 1..Len(fn.result) :
                   \E i \in q : /\ fn.result[k] = TECHNICIANS_DATA[i]
                                /\ Cardinality({j \in q : j < i}) = k - 1
            /\ (fn.appliance = "AC" /\ fn.region_label = BengaluruUrban
                    /\ fn.required_skill = None
                  => /\ Len(fn.result) = 2
                     /\ fn.result[1].id = "tech_01"
                     /\ fn.result[2].id = "tech_03")

\* C4 witness: the match for AC, Bengaluru Urban, no skill has been computed
\* and holds two technicians.
MatchAcBengaluruDone ==
    /\ fn.op = "find_technicians_for"
    /\ fn.done
    /\ fn.appliance = "AC"
    /\ fn.region_label = BengaluruUrban
    /\ fn.required_skill = None
    /\ Len(fn.result) = 2

\* the instant, in minutes, that a timestamp with an offset denotes
Aware(ts) == ts.fmt \in {"iso", "short"} /\ ts.tz \in {"+05:30", "+00:00"}
Instant(ts) == ts.d * 1440 + ts.m - (IF ts.tz = "+05:30" THEN 330 ELSE 0)
Later(a, b) == IF a >= b THEN a ELSE b
Earlier(a, b) == IF a <= b THEN a ELSE b
Unreadable(x) == x.start.fmt \in {"bad", "missing"} \/ x.end.fmt \in {"bad", "missing"}

\* the start and end instants of what a preferred and an availability
\* interval have in common
CommonStart(pref, avail) == Later(Instant(pref.start), Instant(avail.start))
CommonEnd(pref, avail) == Earlier(Instant(pref.end), Instant(avail.end))

\* the (preferred, availability) index pairs in nested order, and those of
\* them that overlap
NestedPairs(tech, prefs) ==
    LET na == Len(tech.availability_slots)
    IN  [k \in 1..(Len(prefs) * na) |-> <<((k - 1) \div na) + 1, ((k - 1) % na) + 1>>]
OverlappingPairs(tech, prefs) ==
    SelectSeq(NestedPairs(tech, prefs), LAMBDA pr :
        /\ Aware(prefs[pr[1]].start) /\ Aware(prefs[pr[1]].end)
        /\ CommonStart(prefs[pr[1]], tech.availability_slots[pr[2]])
             < CommonEnd(prefs[pr[1]], tech.availability_slots[pr[2]]))

\* C5: when some (preferred, availability) pair overlaps, the proposals are
\* the overlaps only, in nested order, cut at the target count; preferred
\* [10:00,12:00) against tech_01's [10:00,12:00) gives exactly one proposal.
OverlapsOnlyWhenAnyOverlap ==
    (/\ fn.op = "propose_slots"
     /\ fn.done
     /\ \A i \in DOMAIN fn.prefs : Aware(fn.prefs[i].start) /\ Aware(fn.prefs[i].end)
     /\ OverlappingPairs(TECHNICIANS_DATA[fn.tech], fn.prefs) # <<>>)
    => LET tech == TECHNICIANS_DATA[fn.tech]
           hits == OverlappingPairs(tech, fn.prefs)
           got == fn.result.proposals
       IN  /\ ~fn.result.raised
           /\ Len(got) = Earlier(fn.max_proposals, Len(hits))
           /\ \A k \in 1..Earlier(Len(got), Len(hits)) :
                  LET pref == fn.prefs[hits[k][1]]
                      avail == tech.availability_slots[hits[k][2]]
                  IN  /\ Aware(got[k].start) /\ Aware(got[k].end)
                      /\ Instant(got[k].start) = CommonStart(pref, avail)
                      /\ Instant(got[k].end) = CommonEnd(pref, avail)
                      /\ got[k].technician_id = tech.id

\* C6: when no (preferred, availability) pair overlaps (no preferred interval,
\* or intervals apart from or only touching the availability), the proposals
\* are the technician's first min(target, number of availability intervals)
\* availability intervals as declared, each with the technician's id.
AvailabilityWhenNoOverlap ==
    (/\ fn.op = "propose_slots"
     /\ fn.done
     /\ \A i \in DOMAIN fn.prefs :
            \/ Unreadable(fn.prefs[i])
            \/ Aware(fn.prefs[i].start) /\ Aware(fn.prefs[i].end)
     /\ OverlappingPairs(TECHNICIANS_DATA[fn.tech], fn.prefs) = <<>>)
    => LET tech == TECHNICIANS_DATA[fn.tech]
           got == fn.result.proposals
       IN  /\ ~fn.result.raised
           /\ Len(got) = Earlier(fn.max_proposals, Len(tech.availability_slots))
           /\ \A k \in 1..Len(got) :
                  got[k] = [start |-> tech.availability_slots[k].start,
                            end |-> tech.availability_slots[k].end,
                            technician_id |-> tech.id]

\* C6 witness: tech_01 asked for three proposals with one preferred interval
\* that only touches the end of its first slot; both its slots came back.
TouchingIntervalFellBack ==
    /\ fn.op = "propose_slots"
    /\ fn.done
    /\ fn.tech = 1
    /\ fn.max_proposals = 3
    /\ fn.prefs = <<Slot(TS(20,12,0), TS(20,13,0))>>
    /\ Len(fn.result.proposals) = 2

\* a confirm request that names a customer, a job, a slot and a technician
ConfirmComplete(req) ==
    /\ req.op = "confirm_booking"
    /\ req.payload.customer_id # NoId
    /\ req.payload.job_id # NoId
    /\ req.payload.chosen_slot # NoSlot
    /\ req.payload.technician_id \notin {None, ""}

\* C7: a confirm whose customer or job identifier is not in the store is
\* answered with NotFound (404) and creates no appointment.
ConfirmUnknownIsNotFound ==
    [][(/\ ConfirmComplete(request')
        /\ \/ request'.payload.customer_id \notin DOMAIN CUSTOMERS
           \/ request'.payload.job_id \notin DOMAIN JOBS)
       => /\ response'.code = 404
          /\ APPOINTMENTS' = APPOINTMENTS]_vars

\* the declared availability intervals of a technician id, none for an id
\* the Directory does not hold
DeclaredSlots(technician_id) ==
    UNION {{<<ts.start, ts.end>> : ts \in Range(TECHNICIANS_DATA[i].availability_slots)} :
              i \in {n \in DOMAIN TECHNICIANS_DATA : TECHNICIANS_DATA[n].id = technician_id}}

\* the status field of a response, "error" for an error response
Outcome(resp) == IF "status" \in DOMAIN resp THEN resp.status ELSE "error"

\* C8: no appointment exists at the start; a ticket comes into existence only
\* by a successful confirm; a confirm with a known customer, a known job, a
\* slot and a technician id succeeds and adds exactly one appointment, in
\* status confirmed, with the customer's and the job's fields as they are at
\* that time and the slot and technician as given, whether the technician
\* declares the slot or not; every appointment's status is confirmed,
\* rescheduled or cancelled.
ConfirmCreatesConfirmedAppointment ==
    /\ APPOINTMENTS = EmptyMap
    /\ [](\A t \in DOMAIN APPOINTMENTS :
              APPOINTMENTS[t].status \in {"confirmed", "rescheduled", "cancelled"})
    /\ [][/\ DOMAIN APPOINTMENTS \subseteq DOMAIN APPOINTMENTS'
          /\ DOMAIN APPOINTMENTS' # DOMAIN APPOINTMENTS
               => request'.op = "confirm_booking" /\ Outcome(response') = "ok"
          /\ (/\ ConfirmComplete(request')
              /\ request'.payload.customer_id \in DOMAIN CUSTOMERS
              /\ request'.payload.job_id \in DOMAIN JOBS)
             => LET pl == request'.payload
                    customer == CUSTOMERS[pl.customer_id]
                    job == JOBS[pl.job_id]
                IN  /\ response'.code = 200
                    /\ Outcome(response') = "ok"
                    /\ \E t \in DOMAIN APPOINTMENTS' \ DOMAIN APPOINTMENTS :
                         LET a == APPOINTMENTS'[t]
                         IN  /\ DOMAIN APPOINTMENTS' = DOMAIN APPOINTMENTS \cup {t}
                             /\ response'.ticket_id = t
                             /\ a.status = "confirmed"
                             /\ a.customer_id = pl.customer_id
                             /\ a.job_id = pl.job_id
                             /\ a.customer_name = customer.full_name
                             /\ a.phone = customer.phone
                             /\ a.email = customer.email
                             /\ a.address_text = customer.address_text
                             /\ a.pincode = customer.pincode
                             /\ a.region_label = customer.region_label
                             /\ a.appliance_type = job.appliance_type
                             /\ a.fault_symptoms = job.fault_symptoms
                             /\ a.technician_id = pl.technician_id
                             /\ a.slot_start = pl.chosen_slot.start
                             /\ a.slot_end = pl.chosen_slot.end
                    /\ \A t \in DOMAIN APPOINTMENTS : APPOINTMENTS'[t] = APPOINTMENTS[t]]_vars

\* C8 witness: a confirm for a technician id outside the Directory and a slot
\* no technician declares has succeeded, after the customer changed phone.
ConfirmedUndeclaredSlot ==
    /\ request.op = "confirm_booking"
    /\ request.payload.technician_id = "tech_99"
    /\ request.payload.chosen_slot = SlotInside
    /\ Outcome(response) = "ok"
    /\ response.ticket_id \in DOMAIN APPOINTMENTS
    /\ APPOINTMENTS[response.ticket_id].status = "confirmed"
    /\ APPOINTMENTS[response.ticket_id].phone = PhoneB

\* a reschedule request with a slot for a ticket in the store
RescheduleKnown(req, appointments) ==
    /\ req.op = "reschedule"
    /\ req.payload.new_slot # NoSlot
    /\ req.payload.ticket_id \in DOMAIN appointments

\* C9: a reschedule whose new slot equals, start and end, none of the declared
\* availability intervals of the appointment's technician is answered without
\* error by a rejection that carries the technician's first declared interval,
\* and leaves the appointment as it was.
RescheduleRejectionKeepsAppointment ==
    [][(/\ RescheduleKnown(request', APPOINTMENTS)
        /\ DeclaredSlots(APPOINTMENTS[request'.payload.ticket_id].technician_id) # {}
        /\ <<request'.payload.new_slot.start, request'.payload.new_slot.end>>
             \notin DeclaredSlots(APPOINTMENTS[request'.payload.ticket_id].technician_id))
       => LET a == APPOINTMENTS[request'.payload.ticket_id]
              first == TECHNICIANS_DATA[
                           CHOOSE i \in DOMAIN TECHNICIANS_DATA :
                               TECHNICIANS_DATA[i].id = a.technician_id].availability_slots[1]
          IN  /\ response'.code = 200
              /\ Outcome(response') = "no"
              /\ response'.alternative_slot.start = first.start
              /\ response'.alternative_slot.end = first.end
              /\ APPOINTMENTS' = APPOINTMENTS]_vars

\* C9 witness: a reschedule to a slot with a declared start and another
\* declared interval's end was rejected.
RescheduleMixedRejected ==
    /\ request.op = "reschedule"
    /\ request.payload.new_slot = SlotMixed
    /\ request.payload.ticket_id \in DOMAIN APPOINTMENTS
    /\ Outcome(response) = "no"

\* C10: a reschedule on a known ticket is accepted exactly when the new slot
\* equals, start and end, a declared availability interval of the assigned
\* technician; on acceptance the appointment takes the new slot and the status
\* rescheduled; every appointment that has been rescheduled holds a declared
\* availability interval of its technician.
RescheduleAcceptsDeclaredSlotsOnly ==
    /\ [](\A t \in DOMAIN APPOINTMENTS :
              APPOINTMENTS[t].rescheduled_at # 0
                  => <<APPOINTMENTS[t].slot_start, APPOINTMENTS[t].slot_end>>
                         \in DeclaredSlots(APPOINTMENTS[t].technician_id))
    /\ [][RescheduleKnown(request', APPOINTMENTS)
          => LET t == request'.payload.ticket_id
                 new_slot == request'.payload.new_slot
                 accepted == response'.code = 200 /\ Outcome(response') = "ok"
             IN  /\ accepted <=> <<new_slot.start, new_slot.end>>
                                    \in DeclaredSlots(APPOINTMENTS[t].technician_id)
                 /\ accepted => /\ APPOINTMENTS'[t].slot_start = new_slot.start
                                /\ APPOINTMENTS'[t].slot_end = new_slot.end
                                /\ APPOINTMENTS'[t].status = "rescheduled"
                                /\ APPOINTMENTS'[t].rescheduled_at # 0
                 /\ ~accepted => APPOINTMENTS' = APPOINTMENTS]_vars

\* C10 witness: an appointment confirmed on a slot inside an availability
\* interval has been moved to tech_01's second declared interval.
RescheduledToDeclaredSlot ==
    /\ request.op = "reschedule"
    /\ Outcome(response) = "ok"
    /\ request.payload.ticket_id \in DOMAIN APPOINTMENTS
    /\ APPOINTMENTS[request.payload.ticket_id].status = "rescheduled"
    /\ APPOINTMENTS[request.payload.ticket_id].slot_start = T01.availability_slots[2].start
    /\ APPOINTMENTS[request.payload.ticket_id].slot_end = T01.availability_slots[2].end

\* C11: a reschedule or cancel that names a ticket the store does not hold,
\* and a reschedule on an appointment whose technician id the Directory does
\* not hold, is answered with NotFound (404) and changes no appointment,
\* customer or job.
UnknownTicketOrTechnicianIsNotFound ==
    [][(\/ /\ request'.op = "reschedule"
           /\ request'.payload.ticket_id # NoId
           /\ request'.payload.new_slot # NoSlot
           /\ \/ request'.payload.ticket_id \notin DOMAIN APPOINTMENTS
              \/ \A i \in DOMAIN TECHNICIANS_DATA :
                     TECHNICIANS_DATA[i].id
                         # APPOINTMENTS[request'.payload.ticket_id].technician_id
        \/ /\ request'.op = "cancel"
           /\ request'.payload.ticket_id # NoId
           /\ request'.payload.ticket_id \notin DOMAIN APPOINTMENTS)
       => /\ response'.code = 404
          /\ APPOINTMENTS' = APPOINTMENTS
          /\ CUSTOMERS' = CUSTOMERS
          /\ JOBS' = JOBS]_vars

\* C11 witness: a reschedule to a slot tech_01 declares, on a stored
\* appointment confirmed for technician tech_99, was answered 404.
RescheduleForeignTechnicianNotFound ==
    /\ request.op = "reschedule"
    /\ request.payload.ticket_id \in DOMAIN APPOINTMENTS
    /\ request.payload.new_slot = T01.availability_slots[1]
    /\ APPOINTMENTS[request.payload.ticket_id].technician_id = "tech_99"
    /\ response.code = 404

\* C12: a cancel on a stored ticket is answered ok whatever the status was,
\* confirmed, rescheduled or cancelled; afterwards the status is cancelled,
\* the stored reason is the reason of this call, and the slot and every other
\* appointment are as before.
CancelAlwaysSucceeds ==
    [][(/\ request'.op = "cancel"
        /\ request'.payload.ticket_id \in DOMAIN APPOINTMENTS)
       => LET t == request'.payload.ticket_id
          IN  /\ response'.code = 200
              /\ Outcome(response') = "ok"
              /\ DOMAIN APPOINTMENTS' = DOMAIN APPOINTMENTS
              /\ APPOINTMENTS'[t].status = "cancelled"
              /\ APPOINTMENTS'[t].cancel_reason = request'.payload.reason
              /\ APPOINTMENTS'[t].cancelled_at # 0
              /\ APPOINTMENTS'[t].slot_start = APPOINTMENTS[t].slot_start
              /\ APPOINTMENTS'[t].slot_end = APPOINTMENTS[t].slot_end
              /\ \A u \in DOMAIN APPOINTMENTS \ {t} :
                     APPOINTMENTS'[u] = APPOINTMENTS[u]]_vars

\* C12 witness: an appointment that had been rescheduled is cancelled with the
\* reason of the last cancel call.
CancelledAfterReschedule ==
    /\ request.op = "cancel"
    /\ request.payload.reason = "moved"
    /\ request.payload.ticket_id \in DOMAIN APPOINTMENTS
    /\ APPOINTMENTS[request.payload.ticket_id].rescheduled_at # 0
    /\ APPOINTMENTS[request.payload.ticket_id].status = "cancelled"
    /\ APPOINTMENTS[request.payload.ticket_id].cancel_reason = "moved"

\* what one call, run alone and to its end, makes of the appointments
RunAlone(call, appointments) ==
    IF call.op = "reschedule" THEN reschedule(call.payload, 1, appointments).APPOINTMENTS
    ELSE cancel(call.payload, 1, appointments).APPOINTMENTS

\* C13: when two calls on one ticket have both returned, the appointments are
\* what running the two calls one after the other, in one of the two orders,
\* leaves; the recorded slot has its start and its end from the same request.
ConcurrentCallsAreSerializable ==
    (\A i \in DOMAIN threads : threads[i].pc = "done")
    => \E i, j \in DOMAIN threads :
          /\ i # j
          /\ APPOINTMENTS = RunAlone(threads[j], RunAlone(threads[i],
                                StoreAfterConfirm.APPOINTMENTS))

\* an intake payload that cannot be valid: a name of blanks only, or a phone
\* that does not have ten digits
PlainlyInvalid(payload) ==
    \/ \A k \in DOMAIN payload.full_name : payload.full_name[k] = " "
    \/ Cardinality({k \in DOMAIN payload.phone : payload.phone[k] \in Digits}) # 10

\* C14: an intake call (service issue or installation) answered ok has added
\* exactly one customer and exactly one job, the job owned by that customer,
\* and has left the other customers and jobs alone, whether technicians
\* matched or not; an intake call that is not answered ok, an invalid one
\* among them, has added no customer and no job; no intake call changes the
\* appointments.
IntakeCreatesOneCustomerOneJob ==
    [][request'.op \in {"register_service_issue", "book_installation"}
       => /\ APPOINTMENTS' = APPOINTMENTS
          /\ PlainlyInvalid(request'.payload) => response'.code = 400
          /\ response'.code # 200 => CUSTOMERS' = CUSTOMERS /\ JOBS' = JOBS
          /\ response'.code = 200
               => \E c \in DOMAIN CUSTOMERS' \ DOMAIN CUSTOMERS :
                  \E j \in DOMAIN JOBS' \ DOMAIN JOBS :
                      /\ DOMAIN CUSTOMERS' = DOMAIN CUSTOMERS \cup {c}
                      /\ DOMAIN JOBS' = DOMAIN JOBS \cup {j}
                      /\ JOBS'[j].customer_id = c
                      /\ response'.customer_id = c
                      /\ response'.job_id = j
                      /\ \A d \in DOMAIN CUSTOMERS : CUSTOMERS'[d] = CUSTOMERS[d]
                      /\ \A k \in DOMAIN JOBS : JOBS'[k] = JOBS[k]]_vars

\* C14 witness: a second intake, an installation for which no technician
\* matched and nothing was proposed, was answered ok and the store holds two
\* customers and two jobs.
SecondIntakeWithoutTechnician ==
    /\ request.op = "book_installation"
    /\ response.code = 200
    /\ response.proposed_slots = <<>>
    /\ Cardinality(DOMAIN CUSTOMERS) = 2
    /\ Cardinality(DOMAIN JOBS) = 2
    /\ JOBS[response.job_id].customer_id = response.customer_id

\* the static-table entries whose pattern's first four characters begin the
\* postal code
PrefixEntries(pincode) ==
    {i \in DOMAIN REGIONS_CACHE :
        /\ Len(pincode) >= 4
        /\ \A k \in 1..4 : pincode[k] = REGIONS_CACHE[i].pincode_prefix[k]}

\* C15: when every lookup attempt has failed, the call returns the region
\* label of the first static-table entry whose pattern's first four characters
\* begin the postal code, and "Unknown" exactly when there is no such entry.
FallbackIsFirstPrefixEntry ==
    (lr.pc = "done" /\ \A k \in DOMAIN lr.calls : AttemptFailed(lr.calls[k]))
    => LET entries == PrefixEntries(lr.pincode)
       IN  /\ entries # {}
               => \E i \in entries :
                      /\ \A j \in entries : i <= j
                      /\ lr.result = REGIONS_CACHE[i].region_label
           /\ lr.result = Unknown <=> entries = {}

\* C15 witness: all attempts failed for 400001 and the call returned the
\* label of the second table entry.
FallbackFoundMumbai ==
    /\ lr.pc = "done"
    /\ lr.table_used
    /\ lr.pincode = Pin400001
    /\ Len(lr.calls) = lr.retries + 1
    /\ lr.result = MumbaiSuburban

\* the candidate label of a place record: its state name, else its locality
CandidateLabel(place) ==
    LET state == Strip(PlaceGet(place, "state"))
        locality == Strip(PlaceGet(place, "place name"))
    IN  IF state # <<>> THEN state ELSE locality

\* the static-table entries whose label contains the candidate or is
\* contained in it, letter case aside
RelatedEntries(candidate) ==
    {i \in DOMAIN REGIONS_CACHE :
        \/ Contains(Lower(candidate), Lower(REGIONS_CACHE[i].region_label))
        \/ Contains(Lower(REGIONS_CACHE[i].region_label), Lower(candidate))}

\* C16: a call that ends on a place record returns the label of a static-table
\* entry related to the candidate label (state name, else locality) by
\* containment in either direction, letter case aside, when there is such an
\* entry, and the candidate label itself when there is none.
SuccessNormalizesEitherDirection ==
    (/\ lr.pc = "done"
     /\ ~lr.table_used
     /\ CandidateLabel(lr.calls[Len(lr.calls)].places[1]) # <<>>)
    => LET candidate == CandidateLabel(lr.calls[Len(lr.calls)].places[1])
       IN  IF RelatedEntries(candidate) # {}
           THEN \E i \in RelatedEntries(candidate) :
                    lr.result = REGIONS_CACHE[i].region_label
           ELSE lr.result = candidate

\* a preferred interval with an end that cannot be read, or read but without
\* a timezone offset
Malformed(x) ==
    \/ Unreadable(x)
    \/ ~Aware(x.start)
    \/ ~Aware(x.end)

\* C17: malformed preferred intervals are skipped: propose_slots returns
\* normally, with the proposals it returns for the list without them.
MalformedIntervalsAreSkipped ==
    (fn.op = "propose_slots" /\ fn.done)
    => /\ ~fn.result.raised
       /\ fn.result.proposals =
              propose_slots(TECHNICIANS_DATA[fn.tech],
                            SelectSeq(fn.prefs, LAMBDA x : ~Malformed(x)),
                            fn.max_proposals).proposals

\* the proposals of more that are neither in sofar nor earlier in more
NewOnes(sofar, more) ==
    LET fresh == {i \in DOMAIN more :
                     /\ \A k \in DOMAIN sofar : sofar[k] # more[i]
                     /\ \A j \in 1..(i - 1) : more[j] # more[i]}
    IN  SelectSeq([i \in DOMAIN more |-> IF i \in fresh THEN <<more[i]>> ELSE <<>>],
                  LAMBDA x : x # <<>>)

\* what has been accumulated once technicians 1..k have had their turn
RECURSIVE Accumulated(_, _, _)
Accumulated(techs, prefs, k) ==
    LET own == propose_slots(techs[k], prefs, DefaultMaxProposals).proposals
    IN  IF k = 1 THEN own
        ELSE LET sofar == Accumulated(techs, prefs, k - 1)
                 added == NewOnes(sofar, own)
             IN  IF Len(sofar) < 2
                 THEN sofar \o [i \in DOMAIN added |-> added[i][1]]
                 ELSE sofar

\* C18: the proposal list of an intake is empty when no technician matched;
\* otherwise it starts with the first matched technician's proposals, and a
\* later technician's proposals (those not yet collected) are appended only
\* while fewer than 2 have been accumulated.
IntakeAggregatesUntilTwo ==
    (/\ fn.op = "proposal_block"
     /\ fn.done
     /\ \A i \in DOMAIN fn.prefs : ~Malformed(fn.prefs[i]) \/ Unreadable(fn.prefs[i]))
    => /\ ~fn.result.raised
       /\ fn.techs = <<>> => fn.result.proposals = <<>>
       /\ fn.techs # <<>>
            => LET first == propose_slots(fn.techs[1], fn.prefs,
                                          DefaultMaxProposals).proposals
               IN  /\ SubSeq(fn.result.proposals, 1, Len(first)) = first
                   /\ Len(first) >= 2 => fn.result.proposals = first
                   /\ fn.result.proposals
                          = Accumulated(fn.techs, fn.prefs, Len(fn.techs))

\* C18 witness: two technicians matched, the first gave two proposals and the
\* list is those two.
SecondTechnicianNotAsked ==
    /\ fn.op = "proposal_block"
    /\ fn.done
    /\ Len(fn.techs) = 2
    /\ Len(fn.result.proposals) = 2
    /\ \A k \in 1..2 : fn.result.proposals[k].technician_id = fn.techs[1].id

WithLifecycleFieldsOf(a, b) ==
    [a EXCEPT !.slot_start = b.slot_start, !.slot_end = b.slot_end,
              !.status = b.status, !.rescheduled_at = b.rescheduled_at,
              !.cancel_reason = b.cancel_reason, !.cancelled_at = b.cancelled_at]

\* C20: no step removes a customer, a job or an appointment; no step changes
\* a job; no step changes, in an appointment, anything but slot, status,
\* reschedule timestamp, cancellation reason and cancellation timestamp, so
\* its job, customer, technician and snapshot fields stay as confirm wrote
\* them, also when update-contact or update-address changes the customer;
\* a reschedule or cancel changes the ticket it names at most, and no
\* customer; the customer updates change no appointment.
RecordsKeepIdentity ==
    [][/\ DOMAIN CUSTOMERS \subseteq DOMAIN CUSTOMERS'
       /\ DOMAIN JOBS \subseteq DOMAIN JOBS'
       /\ DOMAIN APPOINTMENTS \subseteq DOMAIN APPOINTMENTS'
       /\ \A j \in DOMAIN JOBS : JOBS'[j] = JOBS[j]
       /\ \A t \in DOMAIN APPOINTMENTS :
              WithLifecycleFieldsOf(APPOINTMENTS'[t], APPOINTMENTS[t]) = APPOINTMENTS[t]
       /\ request'.op \in {"reschedule", "cancel"}
            => /\ CUSTOMERS' = CUSTOMERS
               /\ \A t \in DOMAIN APPOINTMENTS \ {request'.payload.ticket_id} :
                      APPOINTMENTS'[t] = APPOINTMENTS[t]
       /\ request'.op \in {"update_contact", "change_address"}
            => APPOINTMENTS' = APPOINTMENTS]_vars

\* C20 witness: the customer has changed phone and pincode since the confirm,
\* one of the two appointments was rescheduled and then cancelled, and both
\* still carry the phone and pincode of the time of their confirm.
SnapshotsOutliveUpdates ==
    \E t, u \in DOMAIN APPOINTMENTS :
        /\ t # u
        /\ APPOINTMENTS[t].status = "cancelled"
        /\ APPOINTMENTS[t].rescheduled_at # 0
        /\ APPOINTMENTS[u].status = "confirmed"
        /\ APPOINTMENTS[t].phone = PhoneA
        /\ APPOINTMENTS[t].pincode = Pin560001
        /\ CUSTOMERS[APPOINTMENTS[t].customer_id].phone = PhoneB
        /\ CUSTOMERS[APPOINTMENTS[t].customer_id].pincode = Pin400001

\* the labels lookup_region may return for a pincode
ResolveResults(pincode) ==
    {lookup_region(pincode, DefaultRetries, svc) : svc \in SvcRuns}

\* every customer's region label is one lookup_region may return for the
\* customer's stored pincode
RegionResolvedFromPincode ==
    \A c \in DOMAIN CUSTOMERS :
        CUSTOMERS[c].region_label \in ResolveResults(CUSTOMERS[c].pincode)

\* C21: after every successful change_address call the customer's region label
\* is the result of a lookup_region call made during that call on the
\* customer's stored pincode; and at all times every customer's region label
\* is a value lookup_region returns for the customer's stored pincode.
UpdateAddressResolvesRegion ==
    /\ []RegionResolvedFromPincode
    /\ [][(request'.op = "change_address" /\ response'.code = 200)
            => /\ lr'.pc = "returned"
               /\ lr'.pincode = CUSTOMERS'[request'.payload.customer_id].pincode
               /\ lr'.result = CUSTOMERS'[request'.payload.customer_id].region_label]_vars

\* C22: an update_contact or change_address call that returns an error leaves
\* the customer records exactly as they were before the call.
FailedUpdateLeavesCustomer ==
    [][(request'.op \in {"update_contact", "change_address"} /\ response'.code # 200)
        => CUSTOMERS' = CUSTOMERS]_vars

\* every appointment's customer is the customer of the job it references
OwnerIsJobOwner ==
    \A t \in DOMAIN APPOINTMENTS :
        /\ APPOINTMENTS[t].job_id \in DOMAIN JOBS
        /\ JOBS[APPOINTMENTS[t].job_id].customer_id = APPOINTMENTS[t].customer_id

\* no two appointments that are not cancelled hold one technician for one slot
NoDoubleBooking ==
    \A t, u \in DOMAIN APPOINTMENTS :
        (/\ t # u
         /\ APPOINTMENTS[t].status # "cancelled"
         /\ APPOINTMENTS[u].status # "cancelled"
         /\ APPOINTMENTS[t].technician_id = APPOINTMENTS[u].technician_id)
        => ~(/\ APPOINTMENTS[t].slot_start = APPOINTMENTS[u].slot_start
             /\ APPOINTMENTS[t].slot_end = APPOINTMENTS[u].slot_end)

\* C23: after any sequence of confirm, reschedule and cancel operations every
\* appointment's customer is the owner of its job, and no two appointments
\* that are not cancelled hold the same technician with the same slot.
AppointmentsAgreeWithJobsAndSlots == OwnerIsJobOwner /\ NoDoubleBooking

====
